---- MODULE Spec2Model ----
(***************************************************************************)
(* Model of the hisab-sdk: the transport core (HttpClient.request with its *)
(* retry loop, timeout, error mapping and rate-limit snapshot), the error  *)
(* factory HisabError.fromResponse called directly, and PaginatedIterator  *)
(* with the operations that drive it, and the webhook utilities.  Each has *)
(* its own specification: Spec, SpecFromResponse, SpecPagination (with     *)
(* SpecForEach and SpecCount for forEach and count), SpecWebhooks.         *)
(*                                                                         *)
(* Conventions.  An optional value (undefined / null in the source) is a   *)
(* sequence of length at most one: None or Some(x).  A JavaScript number   *)
(* that may be NaN is modelled the same way: Num(n) or NaN.  A string that *)
(* the code parses (a header value) is a sequence of one-character         *)
(* strings, so that parseInt is computed and not assumed.                  *)
(***************************************************************************)
EXTENDS Integers, Sequences, FiniteSets, TLC

(***************************************************************************)
(* Bounds of the model                                                     *)
(***************************************************************************)
\* Largest retry count a caller passes (per call or to the constructor).
MaxRetries == 2

\* the most items the served list holds
MaxServerItems == 5

\* the largest n passed to take(n)
MaxTake == 3

\* the small page size passed as per_page
SmallPage == 2

\* a retry count that takes the exponential backoff past its cap
LongRetries == 6
\* the clock, in seconds, when the first webhook utility is called, and a
\* tolerance shorter than the default
Epoch == 1000
ShortTolerance == 60

(***************************************************************************)
(* Program constants                                                       *)
(***************************************************************************)
DEFAULT_TIMEOUT == 30000
DEFAULT_RETRIES == 3

\* options.per_page ?? 100 and options.page ?? 1
DEFAULT_PER_PAGE == 100
DEFAULT_PAGE == 1
DEFAULT_TOLERANCE == 300
DigestHexLength == 64

\* getBackoffDelay: base of the exponential delay, its cap, the jitter range
BackoffBaseMs == 1000
BackoffCapMs == 30000
JitterRangeMs == 1000
\* request: seconds to milliseconds
MsPerSecond == 1000

(***************************************************************************)
(* Optional values and JavaScript numbers                                  *)
(***************************************************************************)
None == <<>>
Some(x) == <<x>>
IsSome(o) == o # <<>>
\* a ?? b
Coalesce(o, d) == IF o = None THEN d ELSE o[1]

NaN == <<>>
Num(n) == <<n>>
\* x * k in JavaScript arithmetic: NaN is absorbing
JsTimes(x, k) == IF x = NaN THEN NaN ELSE Num(x[1] * k)

Min(a, b) == IF a <= b THEN a ELSE b

RECURSIVE Pow2(_)
Pow2(n) == IF n <= 0 THEN 1 ELSE 2 * Pow2(n - 1)

(***************************************************************************)
(* parseInt(s, 10): leading white space is skipped, then an optional sign, *)
(* then the longest run of decimal digits; NaN when that run is empty.     *)
(***************************************************************************)
DigitChars == {"0", "1", "2", "3", "4", "5", "6", "7", "8", "9"}

DigitValue(c) ==
    CASE c = "0" -> 0 [] c = "1" -> 1 [] c = "2" -> 2 [] c = "3" -> 3
      [] c = "4" -> 4 [] c = "5" -> 5 [] c = "6" -> 6 [] c = "7" -> 7
      [] c = "8" -> 8 [] c = "9" -> 9

RECURSIVE SkipSpaces(_)
SkipSpaces(s) ==
    IF s # <<>> /\ Head(s) = " " THEN SkipSpaces(Tail(s)) ELSE s

\* <<number of leading digits of s, their decimal value>>, acc = value so far
RECURSIVE LeadingDigits(_, _, _)
LeadingDigits(s, n, acc) ==
    IF s # <<>> /\ Head(s) \in DigitChars
    THEN LeadingDigits(Tail(s), n + 1, 10 * acc + DigitValue(Head(s)))
    ELSE <<n, acc>>

ParseInt(s) ==
    LET t == SkipSpaces(s)
        signed == t # <<>> /\ Head(t) \in {"-", "+"}
        neg == t # <<>> /\ Head(t) = "-"
        u == IF signed THEN Tail(t) ELSE t
        d == LeadingDigits(u, 0, 0)
    IN  IF d[1] = 0 THEN NaN
        ELSE Num(IF neg THEN 0 - d[2] ELSE d[2])

(***************************************************************************)
(* Headers: a function from the header names a response carries to their   *)
(* values.  headers.get(name) is null for a header that is not carried.    *)
(***************************************************************************)
HeadersGet(headers, name) ==
    IF name \in DOMAIN headers THEN Some(headers[name]) ELSE None

\* truthiness of (string | null): null and the empty string are falsy
Truthy(o) == IsSome(o) /\ o[1] # <<>>

(***************************************************************************)
(* Error taxonomy (errors.ts).  An error object is a record; its class     *)
(* field is the constructor that built it.                                 *)
(***************************************************************************)
HisabErrorClasses ==
    {"HisabError", "ValidationError", "AuthenticationError", "ForbiddenError",
     "NotFoundError", "RateLimitError", "NetworkError", "TimeoutError"}

\* error instanceof HisabError
IsHisabError(e) == e.class \in HisabErrorClasses

HisabError(message, code, status, details, resp) ==
    [class |-> "HisabError", message |-> message, code |-> code,
     status |-> status, details |-> details, response |-> resp]

ValidationError(message, code, details, resp) ==
    [class |-> "ValidationError", message |-> message, code |-> code,
     status |-> 400, details |-> details, response |-> resp]

AuthenticationError(message, code, resp) ==
    [class |-> "AuthenticationError", message |-> message, code |-> code,
     status |-> 401, details |-> None, response |-> resp]

ForbiddenError(message, code, resp) ==
    [class |-> "ForbiddenError", message |-> message, code |-> code,
     status |-> 403, details |-> None, response |-> resp]

NotFoundError(message, code, resp) ==
    [class |-> "NotFoundError", message |-> message, code |-> code,
     status |-> 404, details |-> None, response |-> resp]

RateLimitError(message, code, resp, retryAfter) ==
    [class |-> "RateLimitError", message |-> message, code |-> code,
     status |-> 429, details |-> None, response |-> resp,
     retryAfter |-> retryAfter]

\* cause: None or Some(the original error)
NetworkError(message, cause) ==
    [class |-> "NetworkError", message |-> message, code |-> "NETWORK_ERROR",
     status |-> 0, details |-> None, response |-> None, cause |-> cause]

\* message = timeout ? `Request timed out after ${timeout}ms` : message
\* (timeoutInMessage is the number interpolated into the message, if any)
TimeoutError(message, timeout) ==
    [class |-> "TimeoutError",
     message |-> IF timeout # 0 THEN "Request timed out after ${timeout}ms"
                 ELSE message,
     timeoutInMessage |-> IF timeout # 0 THEN Some(timeout) ELSE None,
     code |-> "TIMEOUT", status |-> 0, details |-> None, response |-> None]

(***************************************************************************)
(* HisabError.fromResponse(status, body, headers).  body is the parsed     *)
(* error body: [error |-> None or Some([code, message, details])], each    *)
(* of code, message, details optional.  headers is None when the caller    *)
(* passes none, else Some(the Headers object).                             *)
(***************************************************************************)
BodyErrorField(body, f) ==
    IF IsSome(body.error) THEN body.error[1][f] ELSE None

\* a variant whose switch has no case for 403
FromResponse_No403(status, body, headers) ==
    LET code == Coalesce(BodyErrorField(body, "code"), "UNKNOWN_ERROR")
        message == Coalesce(BodyErrorField(body, "message"),
                            "An unknown error occurred")
        details == BodyErrorField(body, "details")
    IN  CASE status = 400 -> ValidationError(message, code, details, body)
          [] status = 401 -> AuthenticationError(message, code, body)
          [] status = 404 -> NotFoundError(message, code, body)
          [] status = 429 ->
               LET retryAfter ==
                     IF IsSome(headers)
                     THEN ParseInt(Coalesce(HeadersGet(headers[1],
                                                       "Retry-After"),
                                            <<"6", "0">>))
                     ELSE Num(60)
               IN  RateLimitError(message, code, body, retryAfter)
          [] OTHER -> HisabError(message, code, status, details, body)

FromResponse(status, body, headers) ==
    LET code == Coalesce(BodyErrorField(body, "code"), "UNKNOWN_ERROR")
        message == Coalesce(BodyErrorField(body, "message"),
                            "An unknown error occurred")
        details == BodyErrorField(body, "details")
    IN  CASE status = 400 -> ValidationError(message, code, details, body)
          [] status = 401 -> AuthenticationError(message, code, body)
          [] status = 403 -> ForbiddenError(message, code, body)
          [] status = 404 -> NotFoundError(message, code, body)
          [] status = 429 ->
               LET retryAfter ==
                     IF IsSome(headers)
                     THEN ParseInt(Coalesce(HeadersGet(headers[1],
                                                       "Retry-After"),
                                            <<"6", "0">>))
                     ELSE Num(60)
               IN  RateLimitError(message, code, body, retryAfter)
          [] OTHER -> HisabError(message, code, status, details, body)

(***************************************************************************)
(* HttpClient helpers (request.ts)                                         *)
(***************************************************************************)
\* a variant that merges the remaining count into an existing snapshot
ParseRateLimitHeaders_Merge(last, headers) ==
    LET limit == HeadersGet(headers, "X-RateLimit-Limit")
        remaining == HeadersGet(headers, "X-RateLimit-Remaining")
        reset == HeadersGet(headers, "X-RateLimit-Reset")
    IN  IF Truthy(limit) /\ Truthy(remaining) /\ Truthy(reset)
        THEN IF IsSome(last)
             THEN Some([last[1] EXCEPT !.remaining = ParseInt(remaining[1])])
             ELSE Some([limit |-> ParseInt(limit[1]),
                        remaining |-> ParseInt(remaining[1]),
                        reset |-> ParseInt(reset[1])])
        ELSE last

\* a variant that updates as soon as the limit and the remaining count are
\* sent
ParseRateLimitHeaders_TwoHeaders(last, headers) ==
    LET limit == HeadersGet(headers, "X-RateLimit-Limit")
        remaining == HeadersGet(headers, "X-RateLimit-Remaining")
        reset == HeadersGet(headers, "X-RateLimit-Reset")
    IN  IF Truthy(limit) /\ Truthy(remaining)
        THEN Some([limit |-> ParseInt(limit[1]),
                   remaining |-> ParseInt(remaining[1]),
                   reset |-> ParseInt(Coalesce(reset, <<>>))])
        ELSE last

\* parseRateLimitHeaders: the new value of lastRateLimit
ParseRateLimitHeaders(last, headers) ==
    LET limit == HeadersGet(headers, "X-RateLimit-Limit")
        remaining == HeadersGet(headers, "X-RateLimit-Remaining")
        reset == HeadersGet(headers, "X-RateLimit-Reset")
    IN  IF Truthy(limit) /\ Truthy(remaining) /\ Truthy(reset)
        THEN Some([limit |-> ParseInt(limit[1]),
                   remaining |-> ParseInt(remaining[1]),
                   reset |-> ParseInt(reset[1])])
        ELSE last

\* response.json(): the parsed object, when the body is well-formed JSON
JsonValue(body) == [error |-> body.error, raw |-> body.raw]

\* safeParseJson
SafeParseJson(resp, body) ==
    IF body.json THEN JsonValue(body)
    ELSE [error |-> Some([code |-> None,
                          message |-> Some(IF resp.statusText # ""
                                           THEN resp.statusText
                                           ELSE "Unknown error"),
                          details |-> None]),
          raw |-> "synthetic"]

\* a variant of the backoff without its cap
GetBackoffDelay_Uncapped(attempt, jitter) ==
    BackoffBaseMs * Pow2(attempt - 1) + jitter

\* getBackoffDelay(attempt), jitter = Math.random() * 1000
GetBackoffDelay(attempt, jitter) ==
    Min(BackoffBaseMs * Pow2(attempt - 1), BackoffCapMs) + jitter

\* response.ok
ResponseOk(resp) == resp.status >= 200 /\ resp.status < 300

\* error.message.includes(word), a message being a sequence of words
Includes(message, word) == \E i \in 1..Len(message) : message[i] = word

\* { ...f, ...g }: the properties of f, those of g replacing on collision
Spread(f, g) ==
    [h \in DOMAIN f \cup DOMAIN g |-> IF h \in DOMAIN g THEN g[h] ELSE f[h]]

\* const requestHeaders = { Authorization, Content-Type, Accept,
\*                          ...this.customHeaders, ...headers }
RequestHeadersOf(key, type, custom, perCall) ==
    Spread(Spread([h \in {"Authorization", "Content-Type", "Accept"} |->
                     CASE h = "Authorization" -> "Bearer " \o key
                       [] h = "Content-Type" -> "application/json"
                       [] OTHER -> IF type = "json" THEN "application/json"
                                   ELSE "*/*"],
                  custom),
           Coalesce(perCall, <<>>))

\* a variant of the key check that rejects only a key that was not given
ApiKeyMissing_OnlyUndefined(key) == key = None

\* !options.apiKey
ApiKeyMissing(key) == key = None \/ key = Some("")

\* new HttpClient(options): the error thrown, or the fields of the instance
HttpClientConstructor(options) ==
    IF ApiKeyMissing(options.apiKey)
    THEN [threw |-> TRUE, class |-> "HttpClient",
          error |-> [class |-> "Error", name |-> "Error",
                     message |-> <<"API", "key", "is", "required">>]]
    ELSE [threw |-> FALSE, class |-> "HttpClient",
          apiKey |-> options.apiKey[1],
          timeout |-> Coalesce(options.timeout, DEFAULT_TIMEOUT),
          maxRetries |-> Coalesce(options.retries, DEFAULT_RETRIES),
          customHeaders |-> Coalesce(options.headers, <<>>)]

\* new HisabClient(options): its own key check, then new HttpClient(options)
HisabClientConstructor(options) ==
    IF ApiKeyMissing(options.apiKey)
    THEN [threw |-> TRUE, class |-> "HisabClient",
          error |-> [class |-> "Error", name |-> "Error",
                     message |-> <<"Hisab", "API", "key", "is", "required">>]]
    ELSE [HttpClientConstructor(options) EXCEPT !.class = "HisabClient"]

(***************************************************************************)
(* Inputs: what callers pass and what the transport may answer             *)
(***************************************************************************)
\* HisabClientOptions given to the constructor: the defaults, a client
\* built with retries, timeout and a custom header set, a client without
\* retries whose custom headers name Authorization, and options without a
\* usable API key
ClientOptions ==
    {[apiKey |-> Some("hisab_live_key"), retries |-> None, timeout |-> None,
      headers |-> None],
     [apiKey |-> Some("hisab_live_key"), retries |-> Some(1),
      timeout |-> Some(10000),
      headers |-> Some([h \in {"X-App"} |-> "demo"])],
     [apiKey |-> Some("hisab_live_key"), retries |-> Some(0),
      timeout |-> None,
      headers |-> Some([h \in {"Authorization"} |-> "Basic legacy"])],
     [apiKey |-> Some(""), retries |-> None, timeout |-> None,
      headers |-> None],
     [apiKey |-> None, retries |-> None, timeout |-> None, headers |-> None]}

\* the constructor calls made: new HisabClient(options) with the default
\* options or without a usable key, new HttpClient(options) with all others
ConstructorCalls ==
    {[class |-> "HisabClient", options |-> o] :
        o \in {x \in ClientOptions :
                 x.retries = None /\ x.headers = None}}
      \cup {[class |-> "HttpClient", options |-> o] :
              o \in {x \in ClientOptions :
                       x.retries # None \/ x.headers # None
                         \/ x.apiKey # Some("hisab_live_key")}}

\* RequestConfig.headers of one call
ConfigHeaders ==
    {Some([h \in {"Authorization"} |-> "Bearer other_key"]),
     Some([h \in {"X-Request-Id"} |-> "1"])}

\* RequestConfig.retries / .timeout / .responseType / .headers of one call:
\* every retry count with the instance timeout, both timeout overrides with
\* a small retry count, the raw modes as the SDK's own callers use them,
\* with nothing else set (invoices.exportPdf, invoices.exportXml), and
\* per-call headers with one retry.
ConfigRetries == {None} \cup {Some(n) : n \in (0 - 1)..MaxRetries}
ConfigTimeouts == {Some(0), Some(5000)}
RequestConfigs ==
    [retries : ConfigRetries, timeout : {None}, responseType : {"json"},
     headers : {None}]
      \cup [retries : {Some(0), Some(1)}, timeout : ConfigTimeouts,
            responseType : {"json"}, headers : {None}]
      \cup [retries : {None}, timeout : {None},
            responseType : {"blob", "text"}, headers : {None}]
      \cup [retries : {Some(1)}, timeout : {None}, responseType : {"json"},
            headers : ConfigHeaders]

\* Math.random() * 1000 lies in [0, 1000); the two ends of the range
Jitters == {0, JitterRangeMs - 1}

Statuses == {200, 302, 400, 404, 429, 500, 503}

\* the reason phrase the server sends with a status (empty over HTTP/2)
StatusText(status) ==
    CASE status = 404 -> "Not Found"
      [] status = 503 -> "Service Unavailable"
      [] OTHER -> ""

RateLimitHeaderNames ==
    {"X-RateLimit-Limit", "X-RateLimit-Remaining", "X-RateLimit-Reset"}

\* rate-limit headers of a response: none, two complete sets, and sets
\* with one header missing or carried with an empty value
RateLimitA ==
    [h \in RateLimitHeaderNames |->
       CASE h = "X-RateLimit-Limit" -> <<"1", "0", "0">>
         [] h = "X-RateLimit-Remaining" -> <<"4", "5">>
         [] OTHER -> <<"1", "7", "0", "0", "0", "0", "0", "0", "0", "0">>]
RateLimitB ==
    [h \in RateLimitHeaderNames |->
       CASE h = "X-RateLimit-Limit" -> <<"5", "0">>
         [] h = "X-RateLimit-Remaining" -> <<"0">>
         [] OTHER -> <<"1", "7", "0", "0", "0", "0", "0", "0", "6", "0">>]
Without(headers, name) ==
    [h \in DOMAIN headers \ {name} |-> headers[h]]
RateLimitHeaderSets ==
    {<<>>, RateLimitA, RateLimitB}
      \cup {Without(RateLimitB, h) : h \in RateLimitHeaderNames}
      \cup {[RateLimitB EXCEPT !["X-RateLimit-Remaining"] = <<>>]}

\* Retry-After of a 429 response: not sent, seconds, or an HTTP date
RetryAfterHeaderSets ==
    {<<>>} \cup {[h \in {"Retry-After"} |-> v] :
                    v \in {<<"3", "0">>, <<"2">>, <<"W", "e", "d">>}}

\* the headers of f and of g, their names being disjoint
MergeHeaders(f, g) ==
    [h \in DOMAIN f \cup DOMAIN g |-> IF h \in DOMAIN f THEN f[h] ELSE g[h]]

\* what fetch resolves with: status line and headers (the body is read
\* later).  Retry-After is sent with status 429 only, where the code reads it.
Responses ==
    {[status |-> st, statusText |-> StatusText(st),
      headers |-> MergeHeaders(rl, ra)] :
        st \in Statuses, rl \in RateLimitHeaderSets,
        ra \in {<<>>}}
    \cup
    {[status |-> 429, statusText |-> StatusText(429),
      headers |-> MergeHeaders(rl, ra)] :
        rl \in RateLimitHeaderSets, ra \in RetryAfterHeaderSets}

\* bodies: an API error envelope (or any JSON object), and a body that is
\* not JSON
ResponseBodies ==
    {[raw |-> "json-object", json |-> TRUE,
      error |-> Some([code |-> Some("SERVER_CODE"),
                      message |-> Some("server message"),
                      details |-> None])],
     [raw |-> "not-json", json |-> FALSE, error |-> None]}

\* what fetch rejects with when no response arrives (other than an abort)
NetworkCauses ==
    {[class |-> "TypeError", name |-> "TypeError",
      message |-> <<"fetch", "failed">>],
     [class |-> "Error", name |-> "Error",
      message |-> <<"ECONNRESET">>]}

\* controller.abort() makes fetch reject with this
AbortError ==
    [class |-> "DOMException", name |-> "AbortError",
     message |-> <<"This", "operation", "was", "aborted">>]

\* response.json() on a body that is not JSON throws this
SyntaxError ==
    [class |-> "SyntaxError", name |-> "SyntaxError",
     message |-> <<"Unexpected", "token">>]

\* the arguments of a direct call of HisabError.fromResponse: statuses with
\* and without a case of their own, bodies with and without an error
\* object, a message and a code, headers not passed, passed without
\* Retry-After, and with Retry-After as seconds and as an HTTP date
FromResponseStatuses ==
    {200, 302, 400, 401, 402, 403, 404, 409, 422, 429, 500, 502, 503, 600}
FromResponseBodies ==
    {[error |-> None],
     [error |-> Some([code |-> None, message |-> None, details |-> None])],
     [error |-> Some([code |-> Some("SERVER_CODE"), message |-> None,
                      details |-> None])],
     [error |-> Some([code |-> Some("SERVER_CODE"),
                      message |-> Some("server message"),
                      details |-> Some(<<[field |-> "email",
                                          message |-> "Invalid email"]>>)])]}
FromResponseHeaders ==
    {None, Some(<<>>)}
      \cup {Some([h \in {"Retry-After"} |-> v]) :
              v \in {<<"3", "0">>, <<"1", "2", "0">>, <<"W", "e", "d">>}}
FromResponseInputs ==
    [status : FromResponseStatuses, body : FromResponseBodies,
     headers : FromResponseHeaders]

(***************************************************************************)
(* State                                                                   *)
(***************************************************************************)
VARIABLES
    construction,    \* the constructor call made: [class, options]
    client,          \* the class of the client object, None if none exists
    constructError,  \* the error the constructor threw, None if it returned
    apiKey,          \* HttpClient.apiKey
    customHeaders,   \* HttpClient.customHeaders
    requestHeaders,  \* request: const requestHeaders, sent with each fetch
    maxRetries,      \* HttpClient.maxRetries
    timeout,         \* HttpClient.timeout
    lastRateLimit,   \* HttpClient.lastRateLimit: None or Some(snapshot)
    pc,              \* where the call of request stands
    config,          \* request: the RequestConfig of the call in progress
    maxAttempts,     \* request: const maxAttempts
    requestTimeout,  \* request: const requestTimeout
    responseType,    \* request: config.responseType
    attempt,         \* request: loop variable
    lastError,       \* request: let lastError
    response,        \* request: const response of the current attempt
    result,          \* what the call settled with: value returned, error thrown
    fetchCalls,      \* calls of customFetch made by the current call
    sleepCalls,      \* calls of sleep made by the current call
    sleepMs,         \* argument of the sleep in progress
    attemptLog       \* status received by each attempt so far (0: no response)

\* what the constructor fixes for the life of the client
clientVars == <<construction, client, constructError, apiKey, customHeaders>>

httpVars ==
    <<construction, client, constructError, apiKey, customHeaders,
      requestHeaders, maxRetries, timeout, lastRateLimit, pc, config,
      maxAttempts, requestTimeout, responseType, attempt, lastError, response,
      result, fetchCalls,
      sleepCalls, sleepMs, attemptLog>>

\* a direct call of HisabError.fromResponse
VARIABLES
    fromResponseArgs,    \* its arguments [status, body, headers], if called
    fromResponseResult   \* the error it returned, once it has returned

factoryVars == <<fromResponseArgs, fromResponseResult>>

\* a PaginatedIterator, the list it pages through and the traversals run
\* on it
VARIABLES
    server,          \* the list behind the path: [total, sparse]
    iterOptions,     \* PaginatedIterator.options
    perPage,         \* PaginatedIterator.perPage
    currentPage,     \* PaginatedIterator.currentPage
    totalPages,      \* PaginatedIterator.totalPages: None (null) or Some(n)
    itemsYielded,    \* PaginatedIterator.itemsYielded
    trav,            \* the traversals: generator and consumer of each
    counting         \* the call of count() or exists() made on it

iterVars ==
    <<server, iterOptions, perPage, currentPage, totalPages, itemsYielded,
      trav, counting>>

\* the webhook utilities: the clock they read and the calls made
VARIABLES
    now,             \* Math.floor(Date.now() / 1000)
    signed,          \* the calls of generateTestSignature made, in order
    verification     \* the call of verifyWebhookSignatureWithReason made

webhookVars == <<now, signed, verification>>

\* request calls in flight together on the one client
VARIABLES
    inFlight,        \* the locals of each call: its position in the loop,
                     \* config, maxAttempts, attempt, and what it has done
    processed        \* the headers of the responses parseRateLimitHeaders
                     \* has been given, in order

concurrentVars == <<inFlight, processed>>

\* the call of verifyWebhookSignatureAsync
VARIABLES
    asyncVerification  \* the call made, the clock reading at the call and
                       \* what the promise resolved with, or None

asyncVars == <<asyncVerification>>

\* what no step of request changes
quietVars ==
    <<factoryVars, iterVars, clientVars, webhookVars, concurrentVars,
      asyncVars>>

\* what no step of the iterator changes
besideIterator ==
    <<httpVars, factoryVars, webhookVars, concurrentVars, asyncVars>>

\* what no synchronous webhook utility changes
besideWebhooks ==
    <<httpVars, factoryVars, iterVars, concurrentVars, asyncVars>>

\* no direct call of HisabError.fromResponse is made
FactoryIdle ==
    /\ fromResponseArgs = None
    /\ fromResponseResult = None

\* no webhook utility is called
WebhooksIdle ==
    /\ now = Epoch
    /\ signed = None
    /\ verification = None

\* no request calls run together
ConcurrentIdle ==
    /\ inFlight = <<>>
    /\ processed = <<>>

\* verifyWebhookSignatureAsync is not called
AsyncIdle == asyncVerification = None

\* new HttpClient(options) or new HisabClient(options) for one of calls, no
\* call of request made yet.  When the constructor throws there is no
\* instance: its fields are unset.
HttpInit(calls) ==
    /\ \E call \in calls :
          LET made == IF call.class = "HisabClient"
                      THEN HisabClientConstructor(call.options)
                      ELSE HttpClientConstructor(call.options)
          IN  /\ construction = call
              /\ client = IF made.threw THEN None ELSE Some(made.class)
              /\ constructError = IF made.threw THEN Some(made.error)
                                  ELSE None
              /\ apiKey = IF made.threw THEN "" ELSE made.apiKey
              /\ customHeaders = IF made.threw THEN <<>>
                                 ELSE made.customHeaders
              /\ maxRetries = IF made.threw THEN 0 ELSE made.maxRetries
              /\ timeout = IF made.threw THEN 0 ELSE made.timeout
    /\ requestHeaders = <<>>
    /\ lastRateLimit = None
    /\ pc = "idle"
    /\ config = None
    /\ maxAttempts = 0
    /\ requestTimeout = 0
    /\ responseType = "json"
    /\ attempt = 0
    /\ lastError = None
    /\ response = None
    /\ result = None
    /\ fetchCalls = 0
    /\ sleepCalls = 0
    /\ sleepMs = None
    /\ attemptLog = <<>>

\* the client of the specifications that make no call of request: a
\* HisabClient built with the default options
DefaultClient ==
    {call \in ConstructorCalls :
        /\ call.class = "HisabClient"
        /\ call.options.apiKey = Some("hisab_live_key")}

vars ==
    <<httpVars, factoryVars, iterVars, webhookVars, concurrentVars, asyncVars>>

(***************************************************************************)
(* Pagination (pagination.ts): the list served, the iterator's options     *)
(***************************************************************************)
\* the list holds items 1..total, served in that order.  A sparse list
\* answers page 1 with no item and counts one page more: its items start
\* on page 2.
Servers ==
    [total : 0..MaxServerItems, sparse : {FALSE}]
      \cup [total : {1, MaxServerItems}, sparse : {TRUE}]

CeilDiv(a, b) == (a + b - 1) \div b

\* items first..last of the list, none if first > last
ItemsFrom(first, last) == [i \in 1..(last - first + 1) |-> first + i - 1]

\* the PaginatedResponse to GET path?page=p&per_page=pp: data and
\* meta.pagination
ServerPage(srv, p, pp) ==
    LET shift == IF srv.sparse THEN 1 ELSE 0
        q == p - shift
        first == (q - 1) * pp + 1
        last == IF q * pp < srv.total THEN q * pp ELSE srv.total
    IN  [data |-> IF q >= 1 THEN ItemsFrom(first, last) ELSE <<>>,
         total_pages |-> CeilDiv(srv.total, pp) + shift,
         total |-> srv.total]

\* AutoPaginateOptions given to the iterator: the defaults with a small
\* page, a later start page, the default page size, an item cap that falls
\* inside a page, a cap of no item, and a cap of exactly one page
IteratorOptions ==
    {[page |-> None, per_page |-> Some(SmallPage), maxItems |-> None],
     [page |-> Some(2), per_page |-> Some(SmallPage), maxItems |-> None],
     [page |-> None, per_page |-> None, maxItems |-> None],
     [page |-> None, per_page |-> Some(SmallPage), maxItems |-> Some(3)],
     [page |-> None, per_page |-> Some(SmallPage), maxItems |-> Some(0)],
     [page |-> None, per_page |-> Some(SmallPage),
      maxItems |-> Some(SmallPage)]}

\* the operations a consumer runs on the iterator: a full drain (toArray,
\* or direct iteration to the end), first() and take(n)
Operations ==
    {[name |-> "toArray", n |-> 0], [name |-> "first", n |-> 0]}
      \cup {[name |-> "take", n |-> k] : k \in 1..MaxTake}

Traversals == {1, 2}

\* the Typed Errors a page fetch may reject with
PageErrors ==
    {NetworkError("Network request failed", None),
     FromResponse(500, [error |-> None], None)}

\* how the promise of a forEach callback may settle: fulfilled with
\* whatever the callback returned, or rejected
CallbackOutcomes ==
    {[kind |-> "fulfilled", value |-> v, reason |-> "none"] :
        v \in {"undefined", "false", "break"}}
      \cup {[kind |-> "rejected", value |-> "undefined",
              reason |-> "callback failed"]}

\* a traversal not yet started
Unused ==
    [op |-> [name |-> "none", n |-> 0], gen |-> "unused", page |-> 0,
     data |-> <<>>, idx |-> 0, out |-> <<>>, fetched |-> <<>>,
     disturbed |-> FALSE, error |-> None, stopAsked |-> FALSE,
     cbFailed |-> FALSE]

\* no call of count() or exists() made yet
NotCounting ==
    [state |-> "idle", method |-> "none", requests |-> <<>>,
     result |-> None, error |-> None]

\* new PaginatedIterator(client, path, options) over one of servers
IterInit(servers, optionsSet) ==
    /\ server \in servers
    /\ iterOptions \in optionsSet
    /\ perPage = Coalesce(iterOptions.per_page, DEFAULT_PER_PAGE)
    /\ currentPage = Coalesce(iterOptions.page, DEFAULT_PAGE)
    /\ totalPages = None
    /\ itemsYielded = 0
    /\ trav = [t \in Traversals |-> Unused]
    /\ counting = NotCounting

\* the iterator of the specifications that run no traversal
IterIdle ==
    IterInit({[total |-> 0, sparse |-> FALSE]},
             {[page |-> None, per_page |-> None, maxItems |-> None]})

\* a client has been constructed (or its construction has failed); no call
\* of request has been made yet
Init ==
    /\ HttpInit(ConstructorCalls)
    /\ FactoryIdle
    /\ IterIdle
    /\ WebhooksIdle
    /\ ConcurrentIdle
    /\ AsyncIdle

(***************************************************************************)
(* HttpClient.request: the pure decisions of the retry loop                *)
(***************************************************************************)
\* a variant that ignores the per-call retry count
MaxAttemptsOf_InstanceOnly(retries, instanceRetries) == instanceRetries + 1

\* const maxAttempts = (retries ?? this.maxRetries) + 1
MaxAttemptsOf(retries, instanceRetries) == Coalesce(retries, instanceRetries) + 1

\* const requestTimeout = timeout ?? this.timeout
RequestTimeoutOf(perCall, instanceTimeout) == Coalesce(perCall, instanceTimeout)

\* a variant that waits the backoff delay after a 429, as after a 5xx
ErrorResponseDecision_BackoffOn429(status, error, att, maxAtt) ==
    IF status >= 400 /\ status < 500 /\ status # 429 THEN "throw"
    ELSE IF (status = 429 \/ status >= 500) /\ att < maxAtt
    THEN "sleepBackoff"
    ELSE "throw"

\* ErrorResponseDecision without the early throw for client errors
ErrorResponseDecision_Retry4xx(status, error, att, maxAtt) ==
    IF error.class = "RateLimitError" /\ att < maxAtt THEN "sleepRetryAfter"
    ELSE IF status >= 400 /\ att < maxAtt THEN "sleepBackoff"
    ELSE "throw"

\* what the non-2xx branch does with the error built from the response:
\* "throw", "sleepRetryAfter" (429, attempts left) or "sleepBackoff"
ErrorResponseDecision(status, error, att, maxAtt) ==
    IF status >= 400 /\ status < 500 /\ status # 429 THEN "throw"
    ELSE IF error.class = "RateLimitError" /\ att < maxAtt
         THEN "sleepRetryAfter"
    ELSE IF status >= 500 /\ att < maxAtt THEN "sleepBackoff"
    ELSE "throw"

\* a variant that throws the first error the call recorded
ErrorToThrow_First(error, lastErr) == Coalesce(lastErr, error)

\* throw error, at the end of the non-2xx branch (lastErr: lastError before
\* this attempt)
ErrorToThrow(error, lastErr) == error

\* the 2xx branch: <<TRUE, value returned>> or <<FALSE, error thrown>>
ParseSuccess(type, body) ==
    IF type = "blob" THEN <<TRUE, [as |-> "arrayBuffer", raw |-> body.raw]>>
    ELSE IF type = "text" THEN <<TRUE, [as |-> "text", raw |-> body.raw]>>
    ELSE IF body.json THEN <<TRUE, [as |-> "json", value |-> JsonValue(body)]>>
    ELSE <<FALSE, SyntaxError>>

\* the catch block, for an error that is no HisabError: does it retry?
CatchRetries(att, maxAtt) == att < maxAtt

\* the catch block on the last attempt: the error thrown to the caller
TransformError(error, reqTimeout) ==
    IF error.class = "TypeError" /\ Includes(error.message, "fetch")
    THEN NetworkError("Network request failed", Some(error))
    ELSE IF error.name = "AbortError"
    THEN TimeoutError("Request timed out", reqTimeout)
    ELSE error

(***************************************************************************)
(* HttpClient.request: steps.  response is the response of the attempt in  *)
(* progress and, once the call has settled, of its final attempt.          *)
(***************************************************************************)
\* await this.sleep(ms); continue
Sleep(ms) ==
    /\ pc' = "sleeping"
    /\ sleepMs' = Some(ms)
    /\ sleepCalls' = sleepCalls + 1
    /\ response' = None
    /\ UNCHANGED <<result, attempt, fetchCalls>>

\* throw error, out of request
Throw(error) ==
    /\ pc' = "thrown"
    /\ result' = Some(error)
    /\ UNCHANGED <<sleepMs, sleepCalls, attempt, fetchCalls, response>>

\* return value
Return(value) ==
    /\ pc' = "returned"
    /\ result' = Some(value)
    /\ UNCHANGED <<sleepMs, sleepCalls, attempt, fetchCalls, response>>

\* head of the for loop with attempt = att: the next fetch is issued, or
\* the loop is over and the throw after it is reached
LoopHead(att, maxAtt, lastErr, fetched) ==
    /\ attempt' = att
    /\ IF att <= maxAtt
       THEN /\ pc' = "fetching"
            /\ fetchCalls' = fetched + 1
            /\ result' = None
       ELSE /\ pc' = "thrown"
            /\ fetchCalls' = fetched
            /\ result' = Some(Coalesce(lastErr,
                   NetworkError("Request failed after all retries", None)))

\* catch (error) { ... }
Catch(error, jitter) ==
    /\ lastError' = Some(error)
    /\ IF IsHisabError(error) THEN Throw(error)
       ELSE IF CatchRetries(attempt, maxAttempts)
       THEN Sleep(Num(GetBackoffDelay(attempt, jitter)))
       ELSE Throw(TransformError(error, requestTimeout))

\* a caller invokes request(cfg) on the client
Request(cfg) ==
    /\ client # None
    /\ pc = "idle"
    /\ requestHeaders' = RequestHeadersOf(apiKey, cfg.responseType,
                                           customHeaders, cfg.headers)
    /\ config' = Some(cfg)
    /\ maxAttempts' = MaxAttemptsOf(cfg.retries, maxRetries)
    /\ requestTimeout' = RequestTimeoutOf(cfg.timeout, timeout)
    /\ responseType' = cfg.responseType
    /\ lastError' = None
    /\ LoopHead(1, maxAttempts', None, 0)
    /\ UNCHANGED <<quietVars, maxRetries, timeout, lastRateLimit, response,
                   sleepCalls, sleepMs, attemptLog>>

\* fetchWithTimeout resolves: the response's status line and headers are in
FetchResponse(resp) ==
    /\ pc = "fetching"
    /\ response' = Some(resp)
    /\ lastRateLimit' = ParseRateLimitHeaders(lastRateLimit, resp.headers)
    /\ attemptLog' = Append(attemptLog, resp.status)
    /\ pc' = "responded"
    /\ UNCHANGED <<quietVars, maxRetries, timeout, config, maxAttempts,
                   requestHeaders, requestTimeout,
                   responseType, attempt, lastError, result, fetchCalls,
                   sleepCalls, sleepMs>>

\* fetchWithTimeout rejects: the transport failed before any response
FetchFails(cause, jitter) ==
    /\ pc = "fetching"
    /\ attemptLog' = Append(attemptLog, 0)
    /\ Catch(cause, jitter)
    /\ UNCHANGED <<quietVars, maxRetries, timeout, lastRateLimit, config,
                   maxAttempts, requestHeaders, requestTimeout, responseType>>

\* fetchWithTimeout: the timer fires while the send is pending, the
\* controller aborts and fetch rejects with an AbortError
FetchTimeout(jitter) ==
    /\ pc = "fetching"
    /\ attemptLog' = Append(attemptLog, 0)
    /\ Catch(AbortError, jitter)
    /\ UNCHANGED <<quietVars, maxRetries, timeout, lastRateLimit, config,
                   maxAttempts, requestHeaders, requestTimeout, responseType>>

\* if (!response.ok) { ... }: the error body is read and the error handled
HandleErrorResponse(body, jitter) ==
    /\ pc = "responded"
    /\ ~ResponseOk(response[1])
    /\ LET resp == response[1]
           errorBody == SafeParseJson(resp, body)
           error == FromResponse(resp.status, errorBody, Some(resp.headers))
           decision ==
               ErrorResponseDecision(resp.status, error, attempt, maxAttempts)
       IN  CASE decision = "sleepRetryAfter" ->
                  /\ Sleep(JsTimes(error.retryAfter, MsPerSecond))
                  /\ UNCHANGED lastError
             [] decision = "sleepBackoff" ->
                  /\ Sleep(Num(GetBackoffDelay(attempt, jitter)))
                  /\ lastError' = Some(error)
             [] OTHER -> Catch(ErrorToThrow(error, lastError), jitter)
    /\ UNCHANGED <<quietVars, maxRetries, timeout, lastRateLimit, config,
                   maxAttempts, requestHeaders, requestTimeout, responseType,
                   attemptLog>>

\* the body of a 2xx response is read and decoded
HandleSuccessResponse(body, jitter) ==
    /\ pc = "responded"
    /\ ResponseOk(response[1])
    /\ LET parsed == ParseSuccess(responseType, body)
       IN  IF parsed[1]
           THEN Return(parsed[2]) /\ UNCHANGED lastError
           ELSE Catch(parsed[2], jitter)
    /\ UNCHANGED <<quietVars, maxRetries, timeout, lastRateLimit, config,
                   maxAttempts, requestHeaders, requestTimeout, responseType,
                   attemptLog>>

\* a variant in which the loop goes round without attempt++
SleepDone_NoIncrement ==
    /\ pc = "sleeping"
    /\ sleepMs' = None
    /\ LoopHead(attempt, maxAttempts, lastError, fetchCalls)
    /\ UNCHANGED <<quietVars, maxRetries, timeout, lastRateLimit, config,
                   maxAttempts, requestHeaders, requestTimeout, responseType,
                   lastError, response, sleepCalls, attemptLog>>

\* the sleep ends: attempt++ and the loop goes round
SleepDone ==
    /\ pc = "sleeping"
    /\ sleepMs' = None
    /\ LoopHead(attempt + 1, maxAttempts, lastError, fetchCalls)
    /\ UNCHANGED <<quietVars, maxRetries, timeout, lastRateLimit, config,
                   maxAttempts, requestHeaders, requestTimeout, responseType,
                   lastError, response, sleepCalls, attemptLog>>

\* the caller has the outcome of the call; the client is ready for the next
Settled ==
    /\ pc \in {"returned", "thrown"}
    /\ pc' = "idle"
    /\ config' = None
    /\ maxAttempts' = 0
    /\ requestTimeout' = 0
    /\ responseType' = "json"
    /\ attempt' = 0
    /\ lastError' = None
    /\ response' = None
    /\ result' = None
    /\ fetchCalls' = 0
    /\ sleepCalls' = 0
    /\ sleepMs' = None
    /\ attemptLog' = <<>>
    /\ requestHeaders' = <<>>
    /\ UNCHANGED <<quietVars, maxRetries, timeout, lastRateLimit>>

Next ==
    \/ \E cfg \in RequestConfigs : Request(cfg)
    \/ \E resp \in Responses : FetchResponse(resp)
    \/ \E cause \in NetworkCauses, jitter \in Jitters : FetchFails(cause, jitter)
    \/ \E jitter \in Jitters : FetchTimeout(jitter)
    \/ \E body \in ResponseBodies, jitter \in Jitters :
          HandleErrorResponse(body, jitter)
    \/ \E body \in ResponseBodies, jitter \in Jitters :
          HandleSuccessResponse(body, jitter)
    \/ SleepDone
    \/ Settled

Spec == Init /\ [][Next]_vars

\* request called with a retry count large enough for the backoff to reach
\* its cap, every attempt ending in a 503, a network failure, a timeout or
\* a 200
BackoffConfigs ==
    {[retries |-> Some(LongRetries), timeout |-> None,
      responseType |-> "json", headers |-> None]}

BackoffResponses ==
    {resp \in Responses :
        resp.status \in {200, 503} /\ DOMAIN resp.headers = {}}

BackoffInit ==
    /\ HttpInit(DefaultClient)
    /\ FactoryIdle
    /\ IterIdle
    /\ WebhooksIdle
    /\ ConcurrentIdle
    /\ AsyncIdle

BackoffNext ==
    \/ \E cfg \in BackoffConfigs : Request(cfg)
    \/ \E resp \in BackoffResponses : FetchResponse(resp)
    \/ \E cause \in NetworkCauses, jitter \in Jitters :
          FetchFails(cause, jitter)
    \/ \E jitter \in Jitters : FetchTimeout(jitter)
    \/ \E body \in ResponseBodies, jitter \in Jitters :
          HandleErrorResponse(body, jitter)
    \/ \E body \in ResponseBodies, jitter \in Jitters :
          HandleSuccessResponse(body, jitter)
    \/ SleepDone
    \/ Settled

SpecBackoff == BackoffInit /\ [][BackoffNext]_vars

\* request called with every retry count, every attempt ending in a
\* response of any status (a 429 with or without Retry-After), a network
\* failure or a timeout
TerminationConfigs ==
    {cfg \in RequestConfigs :
        /\ cfg.timeout = None
        /\ cfg.responseType = "json"
        /\ cfg.headers = None}

TerminationResponses ==
    {resp \in Responses : DOMAIN resp.headers \subseteq {"Retry-After"}}

\* the fetch of the attempt in progress resolves, rejects or is aborted by
\* the timeout
AttemptCompletes ==
    \/ \E resp \in TerminationResponses : FetchResponse(resp)
    \/ \E cause \in NetworkCauses, jitter \in Jitters :
          FetchFails(cause, jitter)
    \/ \E jitter \in Jitters : FetchTimeout(jitter)

\* the body of the response received is read and the response handled
ResponseHandled ==
    \/ \E body \in ResponseBodies, jitter \in Jitters :
          HandleErrorResponse(body, jitter)
    \/ \E body \in ResponseBodies, jitter \in Jitters :
          HandleSuccessResponse(body, jitter)

TerminationNext ==
    \/ \E cfg \in TerminationConfigs : Request(cfg)
    \/ AttemptCompletes
    \/ ResponseHandled
    \/ SleepDone
    \/ Settled

\* request with every awaited promise settling in the end: the fetch (the
\* timeout aborts it at the latest), the reading of the body, the sleep
\* (setTimeout fires)
SpecTermination ==
    /\ BackoffInit
    /\ [][TerminationNext]_vars
    /\ WF_vars(AttemptCompletes)
    /\ WF_vars(ResponseHandled)
    /\ WF_vars(SleepDone)

\* request called with every retry count, the server answering with a
\* status of no class the loop names: a redirect that fetch did not follow,
\* or a three-digit status above 599
UnclassifiedResponses ==
    {[status |-> st, statusText |-> StatusText(st), headers |-> <<>>] :
        st \in {200, 302, 503, 999}}

UnclassifiedNext ==
    \/ \E cfg \in TerminationConfigs : Request(cfg)
    \/ \E resp \in UnclassifiedResponses : FetchResponse(resp)
    \/ \E cause \in NetworkCauses, jitter \in Jitters :
          FetchFails(cause, jitter)
    \/ \E jitter \in Jitters : FetchTimeout(jitter)
    \/ ResponseHandled
    \/ SleepDone
    \/ Settled

SpecUnclassified == BackoffInit /\ [][UnclassifiedNext]_vars

(***************************************************************************)
(* Several calls of request in flight on one HttpClient.  attempt,         *)
(* maxAttempts and the response are locals of each call; lastRateLimit is  *)
(* a field of the client.  A call gives way to the others at its awaits:   *)
(* the fetch, the reading of the body and the sleep.  log holds the        *)
(* outcomes of the call's own attempts (the status, 0 for none).           *)
(***************************************************************************)
CallIds == {1, 2}

NotCalled ==
    [pc |-> "idle", config |-> None, maxAttempts |-> 0, attempt |-> 0,
     fetchCalls |-> 0, sleepCalls |-> 0, log |-> <<>>, response |-> None]

\* the configs of the calls made together: the client's retry count, and
\* none
ConcurrentConfigs ==
    {cfg \in RequestConfigs :
        /\ cfg.retries \in {None, Some(0)}
        /\ cfg.timeout = None
        /\ cfg.responseType = "json"
        /\ cfg.headers = None}

\* the responses they receive: with no rate-limit header, with one of two
\* full sets, and with a set whose remaining count is empty
ConcurrentResponses ==
    {resp \in Responses :
        /\ resp.status \in {200, 503}
        /\ resp.headers \in
              {<<>>, RateLimitA, RateLimitB,
               [RateLimitB EXCEPT !["X-RateLimit-Remaining"] = <<>>]}}

\* the client whose calls are run together: built with retries: 1
ConcurrentClient ==
    {call \in ConstructorCalls :
        /\ call.class = "HttpClient"
        /\ call.options.apiKey = Some("hisab_live_key")
        /\ call.options.retries = Some(1)}

\* the variables of the call modelled on its own
singleCallVars ==
    <<requestHeaders, pc, config, maxAttempts, requestTimeout, responseType,
      attempt, lastError, response, result, fetchCalls, sleepCalls, sleepMs,
      attemptLog>>

\* what a step of one of the calls run together leaves alone, lastRateLimit
\* apart
besideCalls ==
    <<clientVars, maxRetries, timeout, singleCallVars, factoryVars, iterVars,
      webhookVars, asyncVars>>

\* request(cfg) is called: maxAttempts is computed and attempt 1 starts
CallRequest(c, cfg) ==
    /\ inFlight[c].pc = "idle"
    /\ inFlight' = [inFlight EXCEPT ![c] =
          [@ EXCEPT !.pc = "fetching", !.config = Some(cfg),
                    !.maxAttempts = MaxAttemptsOf(cfg.retries, maxRetries),
                    !.attempt = 1, !.fetchCalls = 1]]
    /\ UNCHANGED <<besideCalls, lastRateLimit, processed>>

\* the fetch of call c resolves: parseRateLimitHeaders(response.headers)
CallFetchResponse(c, resp) ==
    /\ inFlight[c].pc = "fetching"
    /\ lastRateLimit' = ParseRateLimitHeaders(lastRateLimit, resp.headers)
    /\ processed' = Append(processed, resp.headers)
    /\ inFlight' = [inFlight EXCEPT ![c] =
          [@ EXCEPT !.pc = "responded", !.response = Some(resp),
                    !.log = Append(@, resp.status)]]
    /\ UNCHANGED besideCalls

\* the catch block of call c, for an error that is no HisabError
CallCatch(c, call) ==
    inFlight' = [inFlight EXCEPT ![c] =
       IF CatchRetries(call.attempt, call.maxAttempts)
       THEN [call EXCEPT !.pc = "sleeping", !.sleepCalls = @ + 1,
                         !.response = None]
       ELSE [call EXCEPT !.pc = "thrown"]]

\* the fetch of call c rejects (network failure or timeout)
CallFetchFails(c) ==
    /\ inFlight[c].pc = "fetching"
    /\ CallCatch(c, [inFlight[c] EXCEPT !.log = Append(@, 0)])
    /\ UNCHANGED <<besideCalls, lastRateLimit, processed>>

\* the body of the response of call c is read and the response handled
CallHandleResponse(c, body) ==
    /\ inFlight[c].pc = "responded"
    /\ LET call == inFlight[c]
           resp == call.response[1]
           error == FromResponse(resp.status, SafeParseJson(resp, body),
                                 Some(resp.headers))
           decision == ErrorResponseDecision(resp.status, error,
                                             call.attempt, call.maxAttempts)
       IN  IF ResponseOk(resp)
           THEN IF ParseSuccess("json", body)[1]
                THEN inFlight' = [inFlight EXCEPT ![c].pc = "returned"]
                ELSE CallCatch(c, call)
           ELSE IF decision = "throw"
                THEN inFlight' = [inFlight EXCEPT ![c].pc = "thrown"]
                ELSE inFlight' = [inFlight EXCEPT ![c] =
                        [call EXCEPT !.pc = "sleeping", !.sleepCalls = @ + 1,
                                     !.response = None]]
    /\ UNCHANGED <<besideCalls, lastRateLimit, processed>>

\* the sleep of call c ends: attempt++ and the next attempt starts
CallSleepDone(c) ==
    /\ inFlight[c].pc = "sleeping"
    /\ inFlight' = [inFlight EXCEPT ![c] =
          [@ EXCEPT !.pc = "fetching", !.attempt = @ + 1,
                    !.fetchCalls = @ + 1]]
    /\ UNCHANGED <<besideCalls, lastRateLimit, processed>>

ConcurrentInit ==
    /\ HttpInit(ConcurrentClient)
    /\ FactoryIdle
    /\ IterIdle
    /\ WebhooksIdle
    /\ AsyncIdle
    /\ inFlight = [c \in CallIds |-> NotCalled]
    /\ processed = <<>>

ConcurrentNext ==
    \/ \E c \in CallIds, cfg \in ConcurrentConfigs : CallRequest(c, cfg)
    \/ \E c \in CallIds, resp \in ConcurrentResponses :
          CallFetchResponse(c, resp)
    \/ \E c \in CallIds : CallFetchFails(c)
    \/ \E c \in CallIds, body \in ResponseBodies : CallHandleResponse(c, body)
    \/ \E c \in CallIds : CallSleepDone(c)

SpecConcurrent == ConcurrentInit /\ [][ConcurrentNext]_vars

(***************************************************************************)
(* HisabError.fromResponse called directly, on every input                 *)
(***************************************************************************)
FromResponseInit ==
    /\ HttpInit(DefaultClient)
    /\ IterIdle
    /\ WebhooksIdle
    /\ ConcurrentIdle
    /\ AsyncIdle
    /\ fromResponseArgs \in {Some(args) : args \in FromResponseInputs}
    /\ fromResponseResult = None

\* HisabError.fromResponse(status, body, headers) returns
CallFromResponse ==
    /\ fromResponseResult = None
    /\ fromResponseResult' =
          Some(FromResponse(fromResponseArgs[1].status,
                            fromResponseArgs[1].body,
                            fromResponseArgs[1].headers))
    /\ UNCHANGED <<httpVars, iterVars, webhookVars, concurrentVars, asyncVars,
                   fromResponseArgs>>

FromResponseNext == CallFromResponse

SpecFromResponse == FromResponseInit /\ [][FromResponseNext]_vars

(***************************************************************************)
(* PaginatedIterator: the generator [Symbol.asyncIterator] and the         *)
(* operations that drive it.  A traversal is one generator object with its *)
(* consumer: gen is "awaiting" while its page fetch is pending, "yielded"  *)
(* while an item is on its way to the consumer, "done" when the generator  *)
(* has run to its end, "closed" when the consumer left the loop            *)
(* (generator.return()), "failed" when the page fetch threw.  page, data   *)
(* and idx are the generator's locals (page requested, response.data, the  *)
(* position of the for-of loop); out holds the items the consumer has      *)
(* kept, fetched the pages the traversal has requested.  disturbed records *)
(* that another traversal has taken a step while this one was under way.   *)
(* Under forEach gen is "callback" while the promise of callback(item) is  *)
(* pending and out holds the items the callback was invoked with; error is *)
(* what the operation rejected with, stopAsked that the callback has       *)
(* returned a value, cbFailed that its promise has rejected.               *)
(***************************************************************************)
\* maxItems && this.itemsYielded >= maxItems
Capped(maxItems, yielded) ==
    /\ IsSome(maxItems)
    /\ maxItems[1] # 0
    /\ yielded >= maxItems[1]

\* a variant that starts a traversal where the cursor stands
StartPage_Continue(options, cursor) == cursor

\* this.currentPage = this.options.page ?? 1, at the start of a traversal
StartPage(options, cursor) == Coalesce(options.page, DEFAULT_PAGE)

Active(tr) == tr.gen \in {"awaiting", "yielded", "callback"}

\* the traversals after traversal t has taken a step that leaves it as tr
Stepped(t, tr) ==
    [u \in Traversals |->
       IF u = t THEN tr
       ELSE IF Active(trav[u]) THEN [trav[u] EXCEPT !.disturbed = TRUE]
       ELSE trav[u]]

\* the generator runs to its end
GenDone(t, tr) ==
    trav' = Stepped(t, [tr EXCEPT !.gen = "done", !.data = <<>>, !.idx = 0,
                                  !.page = 0])

\* a variant of the loop that tests the cap inside the page only
GenLoopTop_NoCapTest(t, tr, cp, yielded) ==
    /\ currentPage' = cp
    /\ trav' = Stepped(t, [tr EXCEPT !.gen = "awaiting", !.page = cp,
                                     !.fetched = Append(@, cp),
                                     !.data = <<>>, !.idx = 0])

\* top of while (true) with this.currentPage = cp: the cap test, then
\* client.get(path, {...options, page: cp, per_page})
GenLoopTop(t, tr, cp, yielded) ==
    /\ currentPage' = cp
    /\ IF Capped(iterOptions.maxItems, yielded)
       THEN GenDone(t, tr)
       ELSE trav' = Stepped(t, [tr EXCEPT !.gen = "awaiting", !.page = cp,
                                          !.fetched = Append(@, cp),
                                          !.data = <<>>, !.idx = 0])

\* a variant of the last-page test that goes one page further
AtLastPage_Strict(page, total) == page > Coalesce(total, 0)

\* page >= this.totalPages, null comparing as 0
AtLastPage(page, total) == page >= Coalesce(total, 0)

\* after the for-of loop: the last-page test, then this.currentPage++
GenAfterPage(t, tr, total, yielded) ==
    IF AtLastPage(currentPage, total)
    THEN GenDone(t, tr) /\ UNCHANGED currentPage
    ELSE GenLoopTop(t, tr, currentPage + 1, yielded)

\* head of for (const item of response.data) at position idx
GenForOf(t, tr, data, idx, total, yielded) ==
    IF idx <= Len(data) /\ ~Capped(iterOptions.maxItems, yielded)
    THEN /\ trav' = Stepped(t, [tr EXCEPT !.gen = "yielded", !.data = data,
                                          !.idx = idx])
         /\ UNCHANGED currentPage
    ELSE GenAfterPage(t, tr, total, yielded)

\* a consumer starts operation op: for await (const item of this) calls
\* next(), the generator resets the cursor and requests its first page
StartTraversal(t, op) ==
    /\ trav[t].gen = "unused"
    /\ \A u \in Traversals : u < t => trav[u].gen # "unused"
    /\ itemsYielded' = 0
    /\ totalPages' = None
    /\ GenLoopTop(t, [trav[t] EXCEPT !.op = op],
                  StartPage(iterOptions, currentPage), 0)
    /\ UNCHANGED <<besideIterator, server, iterOptions, perPage,
                   counting>>

\* the page fetch resolves: totalPages is stored and the for-of loop begins
PageArrives(t) ==
    /\ trav[t].gen = "awaiting"
    /\ LET resp == ServerPage(server, trav[t].page, perPage)
       IN  /\ totalPages' = Some(resp.total_pages)
           /\ GenForOf(t, trav[t], resp.data, 1, Some(resp.total_pages),
                       itemsYielded)
    /\ UNCHANGED <<besideIterator, server, iterOptions, perPage,
                   counting, itemsYielded>>

\* a variant of the generator that requests the page once more before it
\* throws
PageFails_Refetch(t, err) ==
    /\ trav[t].gen = "awaiting"
    /\ trav' = Stepped(t, [trav[t] EXCEPT !.gen = "failed", !.page = 0,
                                          !.error = Some(err),
                                          !.fetched = Append(@, trav[t].page)])
    /\ UNCHANGED <<besideIterator, server, iterOptions, perPage,
                   counting, currentPage, totalPages, itemsYielded>>

\* the page fetch rejects: the generator throws to its consumer
PageFails(t, err) ==
    /\ trav[t].gen = "awaiting"
    /\ trav' = Stepped(t, [trav[t] EXCEPT !.gen = "failed", !.page = 0,
                                          !.error = Some(err)])
    /\ UNCHANGED <<besideIterator, server, iterOptions, perPage,
                   counting, currentPage, totalPages, itemsYielded>>

\* the consumer leaves its loop: generator.return()
Close(t, tr) ==
    /\ trav' = Stepped(t, [tr EXCEPT !.gen = "closed", !.data = <<>>,
                                     !.idx = 0, !.page = 0])
    /\ UNCHANGED <<currentPage, itemsYielded>>

\* the consumer asks for the next item: this.itemsYielded++ and the for-of
\* loop goes on
Resume(t, tr) ==
    /\ itemsYielded' = itemsYielded + 1
    /\ GenForOf(t, tr, tr.data, tr.idx + 1, totalPages, itemsYielded + 1)

\* the body of the consumer's for await loop runs on the item yielded
ConsumerTakes(t) ==
    /\ trav[t].gen = "yielded"
    /\ LET tr == trav[t]
           item == tr.data[tr.idx]
           kept == [tr EXCEPT !.out = Append(@, item)]
       IN  CASE tr.op.name = "first" -> Close(t, kept)
             [] tr.op.name = "take" ->
                  IF Len(tr.out) >= tr.op.n THEN Close(t, tr)
                  ELSE Resume(t, kept)
             [] tr.op.name = "forEach" ->
                  /\ trav' = Stepped(t, [kept EXCEPT !.gen = "callback"])
                  /\ UNCHANGED <<currentPage, itemsYielded>>
             [] OTHER -> Resume(t, kept)
    /\ UNCHANGED <<besideIterator, server, iterOptions, perPage,
                   counting, totalPages>>

\* a variant of forEach that swallows the failure of its callback
AfterCallback_Swallow(outcome) == "resume"

\* a variant of forEach that leaves its loop when the callback returns false
AfterCallback_StopOnFalse(outcome) ==
    IF outcome.kind = "rejected" THEN "throw"
    ELSE IF outcome.value = "false" THEN "close"
    ELSE "resume"

\* await callback(item) in the body of forEach's loop: a rejection is
\* thrown out of the loop, a fulfilment is dropped with its value
AfterCallback(outcome) ==
    IF outcome.kind = "rejected" THEN "throw" ELSE "resume"

\* the promise of the callback forEach awaits settles
CallbackSettles(t, outcome) ==
    /\ trav[t].gen = "callback"
    /\ LET tr == [trav[t] EXCEPT
                     !.stopAsked = @ \/ (/\ outcome.kind = "fulfilled"
                                         /\ outcome.value # "undefined"),
                     !.cbFailed = @ \/ outcome.kind = "rejected"]
           next == AfterCallback(outcome)
       IN  CASE next = "throw" ->
                  Close(t, [tr EXCEPT !.error = Some(outcome.reason)])
             [] next = "close" -> Close(t, tr)
             [] OTHER -> Resume(t, tr)
    /\ UNCHANGED <<besideIterator, server, iterOptions, perPage,
                   counting, totalPages>>

\* a variant of count() that keeps the configured page size
CountQuery_KeepPerPage(options) ==
    Spread(options,
           [page |-> Some(1),
            per_page |-> Some(Coalesce(options.per_page, DEFAULT_PER_PAGE))])

\* the query of the one request count() makes
CountQuery(options) ==
    Spread(options, [page |-> Some(1), per_page |-> Some(1)])

\* count() or exists() is called: client.get(path, {...options, page: 1,
\* per_page: 1})
StartCount(method) ==
    /\ counting.state = "idle"
    /\ counting' = [counting EXCEPT
                      !.state = "awaiting", !.method = method,
                      !.requests = Append(@, CountQuery(iterOptions))]
    /\ UNCHANGED <<besideIterator, server, iterOptions, perPage,
                   currentPage, totalPages, itemsYielded, trav>>

\* a variant of count() that records the total-page count of its response
\* as the traversal does
CountResolves_StoresTotalPages ==
    /\ counting.state = "awaiting"
    /\ LET query == counting.requests[Len(counting.requests)]
           resp == ServerPage(server, query.page[1], query.per_page[1])
       IN  /\ counting' = [counting EXCEPT
                             !.state = "returned",
                             !.result =
                                 IF counting.method = "exists"
                                 THEN Some(resp.total > 0)
                                 ELSE Some(resp.total)]
           /\ totalPages' = Some(resp.total_pages)
    /\ UNCHANGED <<besideIterator, server, iterOptions, perPage,
                   currentPage, itemsYielded, trav>>

\* the request of count() resolves: response.meta.pagination.total is
\* returned, compared with 0 by exists()
CountResolves ==
    /\ counting.state = "awaiting"
    /\ LET query == counting.requests[Len(counting.requests)]
           resp == ServerPage(server, query.page[1], query.per_page[1])
       IN  counting' = [counting EXCEPT
                          !.state = "returned",
                          !.result =
                              IF counting.method = "exists"
                              THEN Some(resp.total > 0)
                              ELSE Some(resp.total)]
    /\ UNCHANGED <<besideIterator, server, iterOptions, perPage,
                   currentPage, totalPages, itemsYielded, trav>>

\* the request of count() rejects
CountFails(err) ==
    /\ counting.state = "awaiting"
    /\ counting' = [counting EXCEPT !.state = "failed",
                                    !.error = Some(err)]
    /\ UNCHANGED <<besideIterator, server, iterOptions, perPage,
                   currentPage, totalPages, itemsYielded, trav>>

PaginationInit ==
    /\ HttpInit(DefaultClient)
    /\ FactoryIdle
    /\ WebhooksIdle
    /\ ConcurrentIdle
    /\ AsyncIdle
    /\ IterInit(Servers, IteratorOptions)

PaginationNext ==
    \/ \E t \in Traversals, op \in Operations : StartTraversal(t, op)
    \/ \E t \in Traversals : PageArrives(t)
    \/ \E t \in Traversals, err \in PageErrors : PageFails(t, err)
    \/ \E t \in Traversals : ConsumerTakes(t)

SpecPagination == PaginationInit /\ [][PaginationNext]_vars

\* forEach(callback) run on the iterator, on its own
ForEachNext ==
    \/ StartTraversal(1, [name |-> "forEach", n |-> 0])
    \/ PageArrives(1)
    \/ \E err \in PageErrors : PageFails(1, err)
    \/ ConsumerTakes(1)
    \/ \E outcome \in CallbackOutcomes : CallbackSettles(1, outcome)

SpecForEach == PaginationInit /\ [][ForEachNext]_vars

\* count() or exists() called on the iterator, before, during or after a
\* traversal of it
CountNext ==
    \/ StartTraversal(1, [name |-> "toArray", n |-> 0])
    \/ PageArrives(1)
    \/ \E err \in PageErrors : PageFails(1, err)
    \/ ConsumerTakes(1)
    \/ \E method \in {"count", "exists"} : StartCount(method)
    \/ CountResolves
    \/ \E err \in PageErrors : CountFails(err)

SpecCount == PaginationInit /\ [][CountNext]_vars

(***************************************************************************)
(* Webhook utilities (webhooks.ts).  payload, secret and timestamp are     *)
(* strings of characters.  A signature header is a string of symbols: a    *)
(* symbol is one character, [ch |-> c], or the hex digest of an HMAC,      *)
(* [hex |-> h], that stands for its DigestHexLength characters.  HMAC-     *)
(* SHA256 is an ideal keyed hash: the digest of a key and a message is the *)
(* pair of them, so two digests are equal exactly when key and message     *)
(* are.                                                                    *)
(***************************************************************************)
Abs(n) == IF n < 0 THEN 0 - n ELSE n

DecimalDigit(d) == <<"0", "1", "2", "3", "4", "5", "6", "7", "8", "9">>[d + 1]

\* the decimal digits of n >= 0
RECURSIVE Digits(_)
Digits(n) ==
    IF n < 10 THEN <<DecimalDigit(n)>>
    ELSE Digits(n \div 10) \o <<DecimalDigit(n % 10)>>

\* String(n), `${n}` of an integer
NumberToString(n) == IF n < 0 THEN <<"-">> \o Digits(0 - n) ELSE Digits(n)

\* the symbols of a string of characters
Chars(str) == [i \in 1..Len(str) |-> [ch |-> str[i]]]

\* crypto.createHmac('sha256', key).update(message)
Hmac(key, message) == [key |-> key, message |-> message]

\* .digest('hex')
Hex(digest) == <<[hex |-> digest]>>

\* Buffer.from(str).length
RECURSIVE ByteLength(_)
ByteLength(str) ==
    IF str = <<>> THEN 0
    ELSE (IF "hex" \in DOMAIN Head(str) THEN DigestHexLength ELSE 1)
           + ByteLength(Tail(str))

\* str.split(sep), sep one character
RECURSIVE Split(_, _)
Split(str, sep) ==
    IF \A i \in 1..Len(str) : str[i] # [ch |-> sep] THEN <<str>>
    ELSE LET i == CHOOSE j \in 1..Len(str) :
                    /\ str[j] = [ch |-> sep]
                    /\ \A k \in 1..(j - 1) : str[k] # [ch |-> sep]
         IN  <<SubSeq(str, 1, i - 1)>>
               \o Split(SubSeq(str, i + 1, Len(str)), sep)

\* a WebhookVerificationResult: error is absent (None) or the reason, the
\* text of its template with the values interpolated into it
Reason(text) ==
    [text |-> text, tolerance |-> None, version |-> None, cause |-> None]

Invalid(reason) == [valid |-> FALSE, error |-> Some(reason)]

MissingParameters ==
    Reason("Missing required parameters for signature verification")
InvalidTimestampFormat == Reason("Invalid timestamp format")
OutsideTolerance(tolerance) ==
    [Reason("Webhook timestamp is outside tolerance (${tolerance}s)")
       EXCEPT !.tolerance = Some(tolerance)]
InvalidSignatureFormat == Reason("Invalid signature format")
UnknownVersion(version) ==
    [Reason("Unknown signature version: ${version}")
       EXCEPT !.version = Some(version)]
VerificationFailed(message) ==
    [Reason("Signature verification failed: ${error.message}")
       EXCEPT !.cause = Some(message)]

\* a variant of the comparison that looks at the lengths only
VerifyWithNodeCrypto_LengthOnly(signedPayload, receivedSignature, secret) ==
    LET expectedSignature == Hex(Hmac(secret, signedPayload))
    IN  [valid |-> ByteLength(receivedSignature)
                     = ByteLength(expectedSignature),
         error |-> None]

\* verifyWithNodeCrypto: crypto.timingSafeEqual throws on buffers of
\* different lengths, and the catch turns that into a reason
VerifyWithNodeCrypto(signedPayload, receivedSignature, secret) ==
    LET expectedSignature == Hex(Hmac(secret, signedPayload))
    IN  IF ByteLength(receivedSignature) # ByteLength(expectedSignature)
        THEN Invalid(VerificationFailed(
                       "Input buffers must have the same byte length"))
        ELSE [valid |-> receivedSignature = expectedSignature,
              error |-> None]

\* a variant of the parameter test that lets an empty secret through
Missing_SecretOptional(options) ==
    \/ options.payload = <<>>
    \/ options.signature = <<>>
    \/ options.timestamp = <<>>

\* !payload || !signature || !timestamp || !secret
Missing(options) ==
    \/ options.payload = <<>>
    \/ options.signature = <<>>
    \/ options.timestamp = <<>>
    \/ options.secret = <<>>

\* a variant of the freshness test that rejects old timestamps only
Stale_PastOnly(clock, webhookTimestamp, tolerance) ==
    clock - webhookTimestamp > tolerance

\* Math.abs(now - webhookTimestamp) > tolerance
Stale(clock, webhookTimestamp, tolerance) ==
    Abs(clock - webhookTimestamp) > tolerance

\* a variant that looks at the signature before the timestamp
VerifyWebhookSignatureWithReason_SignatureFirst(options, clock) ==
    LET tolerance == Coalesce(options.tolerance, DEFAULT_TOLERANCE)
        webhookTimestamp == ParseInt(options.timestamp)
        parts == Split(options.signature, "=")
    IN  IF Missing(options) THEN Invalid(MissingParameters)
        ELSE IF Len(parts) # 2 THEN Invalid(InvalidSignatureFormat)
        ELSE IF parts[1] # Chars(<<"v", "1">>)
        THEN Invalid(UnknownVersion(parts[1]))
        ELSE IF webhookTimestamp = NaN THEN Invalid(InvalidTimestampFormat)
        ELSE IF Stale(clock, webhookTimestamp[1], tolerance)
        THEN Invalid(OutsideTolerance(tolerance))
        ELSE VerifyWithNodeCrypto(
                 options.timestamp \o <<".">> \o options.payload,
                 parts[2], options.secret)

\* a run of verifyWebhookSignatureWithReason that returns early: no HMAC
\* is computed and timingSafeEqual is not called
EarlyReturn(returned) ==
    [result |-> returned, hmacs |-> <<>>, compared |-> FALSE]

\* a variant that computes the expected signature before any check
VerifyRun_EagerHmac(options, clock) ==
    LET tolerance == Coalesce(options.tolerance, DEFAULT_TOLERANCE)
        webhookTimestamp == ParseInt(options.timestamp)
        parts == Split(options.signature, "=")
        signedPayload == options.timestamp \o <<".">> \o options.payload
        computed == <<Hmac(options.secret, signedPayload)>>
        Early(returned) ==
            [result |-> returned, hmacs |-> computed, compared |-> FALSE]
    IN  IF Missing(options) THEN Early(Invalid(MissingParameters))
        ELSE IF webhookTimestamp = NaN
        THEN Early(Invalid(InvalidTimestampFormat))
        ELSE IF Stale(clock, webhookTimestamp[1], tolerance)
        THEN Early(Invalid(OutsideTolerance(tolerance)))
        ELSE IF Len(parts) # 2 THEN Early(Invalid(InvalidSignatureFormat))
        ELSE IF parts[1] # Chars(<<"v", "1">>)
        THEN Early(Invalid(UnknownVersion(parts[1])))
        ELSE [result |-> VerifyWithNodeCrypto(signedPayload, parts[2],
                                              options.secret),
              hmacs |-> computed,
              compared |-> TRUE]

\* verifyWebhookSignatureWithReason(options), the clock reading clock: the
\* result returned, the HMACs computed on the way and whether the digest
\* comparison was reached
VerifyRun(options, clock) ==
    LET tolerance == Coalesce(options.tolerance, DEFAULT_TOLERANCE)
        webhookTimestamp == ParseInt(options.timestamp)
        parts == Split(options.signature, "=")
        signedPayload == options.timestamp \o <<".">> \o options.payload
    IN  IF Missing(options) THEN EarlyReturn(Invalid(MissingParameters))
        ELSE IF webhookTimestamp = NaN
        THEN EarlyReturn(Invalid(InvalidTimestampFormat))
        ELSE IF Stale(clock, webhookTimestamp[1], tolerance)
        THEN EarlyReturn(Invalid(OutsideTolerance(tolerance)))
        ELSE IF Len(parts) # 2
        THEN EarlyReturn(Invalid(InvalidSignatureFormat))
        ELSE IF parts[1] # Chars(<<"v", "1">>)
        THEN EarlyReturn(Invalid(UnknownVersion(parts[1])))
        ELSE [result |-> VerifyWithNodeCrypto(signedPayload, parts[2],
                                              options.secret),
              hmacs |-> <<Hmac(options.secret, signedPayload)>>,
              compared |-> TRUE]

\* the WebhookVerificationResult verifyWebhookSignatureWithReason returns
VerifyWebhookSignatureWithReason(options, clock) ==
    VerifyRun(options, clock).result

\* a variant of the asynchronous verifier that accepts any version name
VerifyWebhookSignatureAsync_AnyVersion(options, clock) ==
    LET tolerance == Coalesce(options.tolerance, DEFAULT_TOLERANCE)
        webhookTimestamp == ParseInt(options.timestamp)
        parts == Split(options.signature, "=")
        signedPayload == options.timestamp \o <<".">> \o options.payload
    IN  IF Missing(options) THEN Invalid(MissingParameters)
        ELSE IF webhookTimestamp = NaN THEN Invalid(InvalidTimestampFormat)
        ELSE IF Stale(clock, webhookTimestamp[1], tolerance)
        THEN Invalid(OutsideTolerance(tolerance))
        ELSE IF Len(parts) # 2 THEN Invalid(InvalidSignatureFormat)
        ELSE [valid |-> Hex(Hmac(options.secret, signedPayload)) = parts[2],
              error |-> None]

\* what verifyWebhookSignatureAsync(options) resolves with, the clock
\* reading clock: the checks of the synchronous verifier, one reason for a
\* bad delimiter count and a bad version, and the hex digest computed with
\* crypto.subtle compared with ===
VerifyWebhookSignatureAsync(options, clock) ==
    LET tolerance == Coalesce(options.tolerance, DEFAULT_TOLERANCE)
        webhookTimestamp == ParseInt(options.timestamp)
        parts == Split(options.signature, "=")
        signedPayload == options.timestamp \o <<".">> \o options.payload
    IN  IF Missing(options) THEN Invalid(MissingParameters)
        ELSE IF webhookTimestamp = NaN THEN Invalid(InvalidTimestampFormat)
        ELSE IF Stale(clock, webhookTimestamp[1], tolerance)
        THEN Invalid(OutsideTolerance(tolerance))
        ELSE IF Len(parts) # 2 \/ parts[1] # Chars(<<"v", "1">>)
        THEN Invalid(InvalidSignatureFormat)
        ELSE [valid |-> Hex(Hmac(options.secret, signedPayload)) = parts[2],
              error |-> None]

\* a variant of the signer that reads the clock for a timestamp of 0
\* (timestamp || now)
GenerateTestSignature_OrClock(payload, secret, timestamp, clock) ==
    LET ts == IF timestamp = None \/ timestamp = Some(0) THEN clock
              ELSE timestamp[1]
        signedPayload == NumberToString(ts) \o <<".">> \o payload
    IN  [signature |-> Chars(<<"v", "1", "=">>)
                         \o Hex(Hmac(secret, signedPayload)),
         timestamp |-> NumberToString(ts)]

\* a variant of the signer that signs `${payload}.${ts}`
GenerateTestSignature_PayloadFirst(payload, secret, timestamp, clock) ==
    LET ts == Coalesce(timestamp, clock)
        signedPayload == payload \o <<".">> \o NumberToString(ts)
    IN  [signature |-> Chars(<<"v", "1", "=">>)
                         \o Hex(Hmac(secret, signedPayload)),
         timestamp |-> NumberToString(ts)]

\* generateTestSignature(payload, secret, timestamp), the clock reading
\* clock
GenerateTestSignature(payload, secret, timestamp, clock) ==
    LET ts == Coalesce(timestamp, clock)
        signedPayload == NumberToString(ts) \o <<".">> \o payload
    IN  [signature |-> Chars(<<"v", "1", "=">>)
                         \o Hex(Hmac(secret, signedPayload)),
         timestamp |-> NumberToString(ts)]

(***************************************************************************)
(* Webhook utilities: the inputs                                           *)
(***************************************************************************)
Payloads == {<<"{", "}">>, <<"5", ".", "a">>}
Secrets == {<<"w", "h", "s", "e", "c">>, <<"k">>}
Tolerances == {None, Some(0), Some(ShortTolerance)}

\* what the clock reads as time passes
ClockValues == {Epoch, Epoch + 1, Epoch + DEFAULT_TOLERANCE + 1}

\* the timestamps given to the signer: none (the clock is read), and times
\* ahead of the clock, at the edges of the tolerances as the clock advances
SignerTimestamps ==
    {None, Some(Epoch + ShortTolerance + 1),
     Some(Epoch + DEFAULT_TOLERANCE + 1)}

\* timestamp headers that no signer produced: none, no digit, digits
\* followed by a letter, a fraction, and a plain time
ForeignTimestamps ==
    {<<>>, <<"n", "o", "w">>, NumberToString(Epoch) \o <<"x">>,
     NumberToString(Epoch) \o <<".", "5">>, NumberToString(Epoch)}

\* the signature header the sender of timestamp and payload computes with
\* secret
SenderSignature(timestamp, payload, secret) ==
    Chars(<<"v", "1", "=">>)
      \o Hex(Hmac(secret, timestamp \o <<".">> \o payload))

\* the signature headers tried on (timestamp, payload, secret): the
\* sender's, and headers that are empty, lack the delimiter, have two of
\* them, name another version, or carry a digest that is short, empty or
\* computed with another key
SignaturesFor(timestamp, payload, secret) ==
    LET digest == Hex(Hmac(secret, timestamp \o <<".">> \o payload))
    IN  {SenderSignature(timestamp, payload, secret),
         <<>>,
         Chars(<<"v", "1">>) \o digest,
         Chars(<<"v", "1", "=", "a", "=">>) \o digest,
         Chars(<<"v", "2", "=">>) \o digest,
         Chars(<<"v", "1", "=", "a", "b", "c">>),
         Chars(<<"v", "1", "=">>),
         Chars(<<"v", "1", "=">>)
           \o Hex(Hmac(<<"o", "t", "h", "e", "r">>,
                       timestamp \o <<".">> \o payload))}

\* the options verifyWebhookSignatureWithReason is called with
VerifyOptions ==
    LET timestamps ==
            ForeignTimestamps
              \cup (IF signed = None THEN {} ELSE {signed[1].result.timestamp})
        made == IF signed = None THEN {} ELSE {signed[1].result.signature}
    IN  UNION {
          [payload : {p}, secret : {s}, timestamp : {ts},
           signature : SignaturesFor(ts, p, s) \cup made,
           tolerance : Tolerances] :
            p \in Payloads \cup {<<>>},
            s \in Secrets \cup {<<>>},
            ts \in timestamps }

(***************************************************************************)
(* Webhook utilities: the calls                                            *)
(***************************************************************************)
\* time passes
ClockAdvances ==
    /\ verification = None
    /\ \E later \in ClockValues : later > now /\ now' = later
    /\ UNCHANGED <<besideWebhooks, signed, verification>>

\* generateTestSignature(payload, secret, timestamp) is called and returns
CallGenerateTestSignature(payload, secret, timestamp) ==
    /\ signed = None
    /\ verification = None
    /\ signed' = Some([payload |-> payload, secret |-> secret,
                       timestamp |-> timestamp, at |-> now,
                       result |-> GenerateTestSignature(payload, secret,
                                                        timestamp, now)])
    /\ UNCHANGED <<besideWebhooks, now, verification>>

\* generateTestSignature(payload, secret, timestamp) is called a second
\* time
CallGenerateTestSignatureAgain(payload, secret, timestamp) ==
    /\ Len(signed) = 1
    /\ verification = None
    /\ signed' = Append(signed,
                        [payload |-> payload, secret |-> secret,
                         timestamp |-> timestamp, at |-> now,
                         result |-> GenerateTestSignature(payload, secret,
                                                          timestamp, now)])
    /\ UNCHANGED <<besideWebhooks, now, verification>>

\* verifyWebhookSignatureWithReason(options) is called and returns
CallVerifyWebhookSignatureWithReason ==
    /\ verification = None
    /\ \E options \in VerifyOptions :
          verification' =
            Some([options |-> options, at |-> now,
                  result |-> VerifyWebhookSignatureWithReason(options, now),
                  hmacs |-> VerifyRun(options, now).hmacs,
                  compared |-> VerifyRun(options, now).compared])
    /\ UNCHANGED <<besideWebhooks, now, signed>>

WebhookInit ==
    /\ HttpInit(DefaultClient)
    /\ FactoryIdle
    /\ IterIdle
    /\ WebhooksIdle
    /\ ConcurrentIdle
    /\ AsyncIdle

WebhookNext ==
    \/ ClockAdvances
    \/ \E p \in Payloads, s \in Secrets, ts \in SignerTimestamps :
          CallGenerateTestSignature(p, s, ts)
    \/ CallVerifyWebhookSignatureWithReason

SpecWebhooks == WebhookInit /\ [][WebhookNext]_vars

\* verifyWebhookSignatureAsync(options) is called with the options of the
\* synchronous verification and its promise resolves; the clock is read
\* once, before the first await
CallVerifyWebhookSignatureAsync ==
    /\ verification # None
    /\ asyncVerification = None
    /\ asyncVerification' =
          Some([options |-> verification[1].options, at |-> now,
                result |-> VerifyWebhookSignatureAsync(
                             verification[1].options, now)])
    /\ UNCHANGED <<httpVars, factoryVars, iterVars, concurrentVars,
                   webhookVars>>

\* both verifiers called on one input, the clock advancing at any point
VerifiersNext ==
    \/ ClockAdvances
    \/ \E p \in Payloads, s \in Secrets, ts \in SignerTimestamps :
          CallGenerateTestSignature(p, s, ts)
    \/ CallVerifyWebhookSignatureWithReason
    \/ CallVerifyWebhookSignatureAsync

SpecVerifiers == WebhookInit /\ [][VerifiersNext]_vars

\* the signer called twice, the clock advancing at any point
SignerTimestampsWithZero == SignerTimestamps \cup {Some(0)}

SignerNext ==
    \/ ClockAdvances
    \/ \E p \in Payloads, s \in Secrets, ts \in SignerTimestampsWithZero :
          CallGenerateTestSignature(p, s, ts)
    \/ \E p \in Payloads, s \in Secrets, ts \in SignerTimestampsWithZero :
          CallGenerateTestSignatureAgain(p, s, ts)

SpecSigner == WebhookInit /\ [][SignerNext]_vars

(***************************************************************************)
(* Properties of HttpClient.request                                        *)
(***************************************************************************)
Settled4xx(status) == status >= 400 /\ status < 500 /\ status # 429
Is5xx(status) == status >= 500 /\ status < 600
Is2xx(status) == status >= 200 /\ status < 300

\* the errors request can build from a response, over the bodies it may carry
ErrorsBuiltFrom(resp) ==
    {FromResponse(resp.status, SafeParseJson(resp, body),
                  Some(resp.headers)) :
        body \in ResponseBodies}

\* the retry budget of the call in progress: the per-call retries if given,
\* else the instance default
RetryBudget == Coalesce(config[1].retries, maxRetries)

\* the effective timeout of the call in progress
EffectiveTimeout == Coalesce(config[1].timeout, timeout)

Last(seq) == seq[Len(seq)]

\* the values the 2xx branch can return in a response mode
DecodedBodies(type) ==
    {ParseSuccess(type, body)[2] :
        body \in {b \in ResponseBodies : ParseSuccess(type, b)[1]}}

\* C1: an attempt that receives a 4xx status other than 429 is the last of
\* its call, whatever the retry budget: no sleep and no further attempt
\* follows it, the call fails with the typed error built from that response,
\* and when that response is the first one exactly one attempt was made.
C1_ClientErrorNotRetried ==
    \A i \in 1..Len(attemptLog) :
        Settled4xx(attemptLog[i]) =>
            /\ i = Len(attemptLog)
            /\ fetchCalls = i
            /\ sleepCalls = i - 1
            /\ pc \in {"responded", "thrown"}
            /\ pc = "thrown" =>
                  /\ result[1] \in ErrorsBuiltFrom(response[1])
                  /\ result[1].status = attemptLog[i]
                  /\ IsHisabError(result[1])

C1_Witness ==
    /\ pc = "thrown"
    /\ attemptLog = <<404>>
    /\ RetryBudget = 3
    /\ fetchCalls = 1
    /\ sleepCalls = 0
    /\ result[1].class = "NotFoundError"

\* C2: when the first k attempts of a call each receive a 5xx response and
\* attempt k+1 receives a 2xx response, the call makes exactly k+1 transport
\* attempts and returns the decoded body of the 2xx response.
C2_RetryThenSuccess ==
    LET n == Len(attemptLog)
    IN  ( /\ n >= 1
          /\ \A i \in 1..(n - 1) : Is5xx(attemptLog[i])
          /\ Is2xx(attemptLog[n])
          /\ pc # "responded" )
        => /\ pc = "returned"
           /\ fetchCalls = n
           /\ result[1] \in DecodedBodies(config[1].responseType)

\* C3: a call with retry budget r >= 0 makes at least 1 and at most r + 1
\* transport attempts.
C3_AttemptsBounded ==
    (pc # "idle" /\ RetryBudget >= 0)
        => /\ fetchCalls >= 1
           /\ fetchCalls <= RetryBudget + 1
           /\ Len(attemptLog) <= fetchCalls

C3_Witness ==
    /\ pc = "thrown"
    /\ config[1].retries = Some(2)
    /\ maxRetries = 3
    /\ fetchCalls = 3
    /\ attemptLog = <<500, 0, 429>>

\* C4: after an attempt receives a 2xx response the call makes no further
\* transport attempt, and a value it returns is the body of that response
\* decoded in the response mode.
C4_SuccessEndsCall ==
    \A i \in 1..Len(attemptLog) :
        Is2xx(attemptLog[i]) =>
            /\ i = Len(attemptLog)
            /\ fetchCalls = i
            /\ pc = "returned" =>
                  result[1] \in DecodedBodies(config[1].responseType)

\* C5: a call that fails raises a typed error (HisabError or a subclass);
\* when its last attempt produced no response that error is TimeoutError for
\* an abort and NetworkError wrapping the original cause otherwise.
C5_OnlyTypedErrors ==
    pc = "thrown" =>
        /\ IsHisabError(result[1])
        /\ (attemptLog # <<>> /\ Last(attemptLog) = 0) =>
              IF lastError[1].name = "AbortError"
              THEN result[1].class = "TimeoutError"
              ELSE /\ result[1].class = "NetworkError"
                   /\ result[1].cause = lastError

\* the Retry-After seconds of the RateLimitError built from a 429 response
RetryAfterOf(resp) ==
    ParseInt(Coalesce(HeadersGet(resp.headers, "Retry-After"), <<"6", "0">>))

\* C6: when an attempt receives a 429 and attempts remain, the call sleeps
\* once, for exactly retryAfter seconds (retryAfter * 1000 ms, retryAfter as
\* carried by the RateLimitError built from that response), and only then
\* makes the next attempt.
C6_RateLimitWait ==
    [][ /\ ( /\ pc = "responded"
             /\ response[1].status = 429
             /\ attempt < maxAttempts )
           => /\ pc' = "sleeping"
              /\ sleepCalls' = sleepCalls + 1
              /\ fetchCalls' = fetchCalls
              /\ \A e \in ErrorsBuiltFrom(response[1]) :
                    /\ e.class = "RateLimitError"
                    /\ e.retryAfter = RetryAfterOf(response[1])
                    /\ sleepMs' = Some(JsTimes(e.retryAfter, 1000))
        /\ pc = "sleeping"
           => /\ pc' = "fetching"
              /\ fetchCalls' = fetchCalls + 1
              /\ sleepCalls' = sleepCalls
              /\ attempt' = attempt + 1 ]_vars

C6_Witness ==
    /\ pc = "sleeping"
    /\ attemptLog = <<429>>
    /\ attempt = 1
    /\ sleepCalls = 1
    /\ sleepMs = Some(Num(30000))

\* the error the caller may receive for a failure that produced no response
DerivedFrom(cause) ==
    {cause, NetworkError("Network request failed", Some(cause))}
      \cup (IF cause.name = "AbortError"
            THEN {TimeoutError("Request timed out", requestTimeout)}
            ELSE {})

\* C7: when the retry budget is exhausted the error raised comes from the
\* final attempt: the RateLimitError with that response's retryAfter after a
\* final 429, the error built from the final response after a final 5xx, the
\* failure of the final attempt when it produced no response.
C7_ExhaustedBudgetError ==
    ( /\ pc = "thrown"
      /\ maxAttempts >= 1
      /\ fetchCalls = maxAttempts
      /\ Len(attemptLog) = fetchCalls )
    => LET st == Last(attemptLog)
       IN  /\ st = 429 =>
                 /\ result[1].class = "RateLimitError"
                 /\ result[1].retryAfter = RetryAfterOf(response[1])
                 /\ result[1] \in ErrorsBuiltFrom(response[1])
           /\ Is5xx(st) =>
                 /\ result[1].class = "HisabError"
                 /\ result[1].status = st
                 /\ response[1].status = st
                 /\ result[1] \in ErrorsBuiltFrom(response[1])
           /\ st = 0 =>
                 /\ response = None
                 /\ result[1] \in DerivedFrom(lastError[1])

C7_Witness ==
    /\ pc = "thrown"
    /\ attemptLog = <<500, 429, 503>>
    /\ fetchCalls = maxAttempts
    /\ result[1].status = 503
    /\ result[1].class = "HisabError"

\* C8: a transport attempt still pending when the effective timeout elapses
\* is cancelled and counts as a failed attempt: it is retried after the
\* backoff delay while attempts remain, and on the last attempt the call
\* fails with a TimeoutError that reports the effective timeout.
C8_TimeoutReported ==
    ( /\ attemptLog # <<>>
      /\ Last(attemptLog) = 0
      /\ lastError = Some(AbortError) )
    => /\ pc \in {"sleeping", "thrown"}
       /\ pc = "sleeping" =>
             /\ attempt < maxAttempts
             /\ \E jitter \in Jitters :
                   sleepMs = Some(Num(GetBackoffDelay(attempt, jitter)))
       /\ pc = "thrown" =>
             /\ attempt = maxAttempts
             /\ requestTimeout = EffectiveTimeout
             /\ result[1].class = "TimeoutError"
             /\ result[1].timeoutInMessage = Some(EffectiveTimeout)

\* the snapshot parsed from the three rate-limit headers of a response
SnapshotOf(headers) ==
    [limit |-> ParseInt(headers["X-RateLimit-Limit"]),
     remaining |-> ParseInt(headers["X-RateLimit-Remaining"]),
     reset |-> ParseInt(headers["X-RateLimit-Reset"])]

\* C9 as stated: a response that carries all three rate-limit headers,
\* whatever its status and whether or not it is retried, replaces
\* lastRateLimit as a whole with the three parsed values.
C9_SnapshotReplaced_AnyValue ==
    ( /\ pc \in {"responded", "returned", "thrown"}
      /\ response # None
      /\ RateLimitHeaderNames \subseteq DOMAIN response[1].headers )
    => lastRateLimit = Some(SnapshotOf(response[1].headers))

\* C9: a response that carries all three rate-limit headers, each with a
\* non-empty value, whatever its status and whether or not it is retried,
\* replaces lastRateLimit as a whole with the three parsed values.
C9_SnapshotReplaced ==
    ( /\ pc \in {"responded", "returned", "thrown"}
      /\ response # None
      /\ RateLimitHeaderNames \subseteq DOMAIN response[1].headers
      /\ \A h \in RateLimitHeaderNames : response[1].headers[h] # <<>> )
    => lastRateLimit = Some(SnapshotOf(response[1].headers))

C9_Witness ==
    /\ pc = "responded"
    /\ attemptLog = <<200, 503>>
    /\ attempt < maxAttempts
    /\ \A h \in RateLimitHeaderNames :
          /\ h \in DOMAIN response[1].headers
          /\ response[1].headers[h] = RateLimitB[h]
    /\ lastRateLimit = Some([limit |-> Num(50), remaining |-> Num(0),
                             reset |-> Num(1700000060)])

\* C10: lastRateLimit is null until the first response that carries all
\* three rate-limit headers; a response that lacks one of them, and an
\* attempt that fails without a response, leave it unchanged.
C10_SnapshotKept ==
    /\ lastRateLimit = None
    /\ [][ lastRateLimit' # lastRateLimit
             => /\ pc = "fetching"
                /\ pc' = "responded"
                /\ RateLimitHeaderNames \subseteq DOMAIN response'[1].headers
         ]_vars

C10_Witness ==
    /\ pc = "responded"
    /\ response[1].headers = Without(RateLimitB, "X-RateLimit-Reset")
    /\ lastRateLimit = Some(SnapshotOf(RateLimitA))

\* C11: constructing HttpClient or HisabClient with an empty API key throws
\* in the constructor: no client object exists, so no request is ever issued
\* and no transport attempt is made.
C11_EmptyKeyRejected ==
    construction.options.apiKey = Some("") =>
        /\ client = None
        /\ constructError # None
        /\ constructError[1].class = "Error"
        /\ pc = "idle"
        /\ fetchCalls = 0
        /\ attemptLog = <<>>

C11_Witness ==
    /\ construction.class = "HisabClient"
    /\ construction.options.apiKey = Some("")
    /\ client = None
    /\ constructError[1].message = <<"Hisab", "API", "key", "is", "required">>

\* the class the error factory is to return for a status
VariantOf(status) ==
    CASE status = 400 -> "ValidationError"
      [] status = 401 -> "AuthenticationError"
      [] status = 403 -> "ForbiddenError"
      [] status = 404 -> "NotFoundError"
      [] status = 429 -> "RateLimitError"
      [] OTHER -> "HisabError"

\* C12: fromResponse maps 400, 401, 403, 404 and 429 to ValidationError,
\* AuthenticationError, ForbiddenError, NotFoundError and RateLimitError,
\* every other status to a plain HisabError, and the status field of the
\* error returned equals the status passed.
C12_StatusToVariant ==
    fromResponseResult # None =>
        /\ fromResponseResult[1].class = VariantOf(fromResponseArgs[1].status)
        /\ fromResponseResult[1].status = fromResponseArgs[1].status

C12_Witness ==
    /\ fromResponseResult # None
    /\ fromResponseArgs[1].status = 403
    /\ fromResponseResult[1].class = "ForbiddenError"
    /\ fromResponseResult[1].status = 403

\* the default message of the constructor of a variant
DefaultMessage(status) ==
    CASE status = 401 -> "Invalid or missing API key"
      [] status = 403 -> "Insufficient permissions"
      [] status = 404 -> "Resource not found"

\* C13: fromResponse with status 401, 403 or 404 and a body without an error
\* message returns an error whose message is the default of its variant.
C13_DefaultMessages ==
    ( /\ fromResponseResult # None
      /\ fromResponseArgs[1].status \in {401, 403, 404}
      /\ BodyErrorField(fromResponseArgs[1].body, "message") = None )
    => fromResponseResult[1].message
         = DefaultMessage(fromResponseArgs[1].status)

\* C14: fromResponse with status 429 returns a RateLimitError whose
\* retryAfter is the integer value of the Retry-After header when the header
\* is present, and 60 when the header is missing or no headers are passed.
C14_RetryAfterValue ==
    (fromResponseResult # None /\ fromResponseArgs[1].status = 429) =>
        LET headers == fromResponseArgs[1].headers
            present == IsSome(headers) /\ "Retry-After" \in DOMAIN headers[1]
            e == fromResponseResult[1]
        IN  /\ e.class = "RateLimitError"
            /\ present =>
                  /\ e.retryAfter # NaN
                  /\ e.retryAfter = ParseInt(headers[1]["Retry-After"])
            /\ ~present => e.retryAfter = Num(60)

\* C15: every transport attempt of every request carries the header
\* Authorization with the value "Bearer <apiKey>" of the client, whatever
\* the custom headers of the instance and the headers of the call.
C15_BearerOnEveryAttempt ==
    (pc # "idle" /\ fetchCalls >= 1) =>
        /\ "Authorization" \in DOMAIN requestHeaders
        /\ requestHeaders["Authorization"] = "Bearer " \o apiKey

\* the configured start page, and the last page the list reports
FirstPage == Coalesce(iterOptions.page, 1)
LastPage == ServerPage(server, FirstPage, perPage).total_pages

\* the pages first..last, in order
PageRange(first, last) == [i \in 1..(last - first + 1) |-> first + i - 1]

\* the items of the pages first..last as the list serves them, in order
RECURSIVE ItemsOfPages(_, _)
ItemsOfPages(first, last) ==
    IF first > last THEN <<>>
    ELSE ServerPage(server, first, perPage).data
           \o ItemsOfPages(first + 1, last)

Prefix(seq, k) == SubSeq(seq, 1, Min(k, Len(seq)))

Ended(tr) == tr.gen \in {"done", "closed", "failed"}

\* the items a full traversal is to yield, and those an operation is to
\* keep of them
FullSequence == ItemsOfPages(FirstPage, LastPage)
Expected(op) ==
    CASE op.name = "first" -> Prefix(FullSequence, 1)
      [] op.name = "take" -> Prefix(FullSequence, op.n)
      [] OTHER -> FullSequence

\* C16: a traversal run to completion on its own, with no item cap, from
\* start page s <= P over a list that reports P pages, fetches the pages
\* s, s+1, ..., P in that order, each once (P - s + 1 fetches), and yields
\* the items of those pages in server order.
C16_FullTraversal ==
    \A t \in Traversals :
        ( /\ trav[t].gen = "done"
          /\ trav[t].op.name = "toArray"
          /\ ~trav[t].disturbed
          /\ iterOptions.maxItems = None
          /\ FirstPage <= LastPage )
        => /\ trav[t].fetched = PageRange(FirstPage, LastPage)
           /\ Len(trav[t].fetched) = LastPage - FirstPage + 1
           /\ trav[t].out = ItemsOfPages(FirstPage, LastPage)

C16_Witness ==
    /\ server = [total |-> 5, sparse |-> FALSE]
    /\ perPage = 2
    /\ trav[1].gen = "done"
    /\ trav[1].op.name = "toArray"
    /\ trav[1].fetched = <<1, 2, 3>>
    /\ trav[1].out = <<1, 2, 3, 4, 5>>

\* C17: a traversal started on the same iterator after an earlier traversal
\* has completed, was abandoned part-way (closed, or left suspended) or
\* failed begins with the cursor reset (configured start page, 0 items
\* yielded, total pages unknown) and, run to completion, yields the full
\* sequence from the start page.
C17_Restart ==
    ( /\ trav[2].gen # "unused"
      /\ ~trav[2].disturbed )
    => /\ trav[2].fetched # <<>>
       /\ trav[2].fetched[1] = FirstPage
       /\ (trav[2].gen = "awaiting" /\ Len(trav[2].fetched) = 1) =>
             /\ currentPage = FirstPage
             /\ itemsYielded = 0
             /\ totalPages = None
       /\ ( /\ trav[2].gen = "done"
            /\ trav[2].op.name = "toArray"
            /\ iterOptions.maxItems = None
            /\ FirstPage <= LastPage )
          => /\ trav[2].out = FullSequence
             /\ trav[2].fetched = PageRange(FirstPage, LastPage)

C17_Witness ==
    /\ server = [total |-> 5, sparse |-> FALSE]
    /\ perPage = 2
    /\ trav[1].gen = "closed"
    /\ trav[1].out = <<1, 2, 3>>
    /\ trav[2].gen = "done"
    /\ ~trav[2].disturbed
    /\ trav[2].out = <<1, 2, 3, 4, 5>>

\* C18: two traversals of the same iterator whose steps interleave each
\* yield the sequence they would yield if run alone: neither changes the
\* page position or the yielded-item count of the other (stated for a
\* well-formed list, no item cap and a start page within the list, where
\* that sequence is known).
C18_IndependentTraversals ==
    \A t \in Traversals :
        ( /\ trav[t].gen \in {"done", "closed"}
          /\ ~server.sparse
          /\ iterOptions.maxItems = None
          /\ FirstPage <= LastPage )
        => trav[t].out = Expected(trav[t].op)

\* C19: take(n), n >= 1, returns the first min(n, available) items in
\* server order and issues only the page fetches needed for them,
\* ceil(min(n, available) / per_page) (one for an empty list).
C19_TakeMinimalFetches ==
    \A t \in Traversals :
        ( /\ trav[t].gen \in {"done", "closed"}
          /\ trav[t].op.name = "take"
          /\ ~trav[t].disturbed
          /\ ~server.sparse
          /\ iterOptions.maxItems = None
          /\ FirstPage <= LastPage )
        => /\ trav[t].out = Prefix(FullSequence, trav[t].op.n)
           /\ Len(trav[t].fetched)
                = IF trav[t].out = <<>> THEN 1
                  ELSE CeilDiv(Len(trav[t].out), perPage)

\* C20: first() returns the first item the traversal yields, or null when
\* it yields none, and never fetches a second page, whatever the server
\* answers.
C20_FirstSinglePage ==
    \A t \in Traversals :
        ( /\ Ended(trav[t])
          /\ trav[t].op.name = "first"
          /\ ~trav[t].disturbed )
        => /\ trav[t].gen = "closed" => Len(trav[t].out) = 1
           /\ trav[t].gen = "done" => trav[t].out = <<>>
           /\ Len(trav[t].fetched) <= 1

(***************************************************************************)
(* Properties of count(), of the item cap, of forEach and of a failing     *)
(* page fetch                                                              *)
(***************************************************************************)
\* C21: count() issues exactly one request, for page 1 with per_page = 1
\* merged over the fixed options (whatever the configured start page and
\* page size), and returns the total of that response's meta.pagination;
\* it fetches no further page.
C21_CountSingleRequest ==
    /\ counting.state # "idle" =>
          counting.requests =
            <<[page |-> Some(1), per_page |-> Some(1),
               maxItems |-> iterOptions.maxItems]>>
    /\ (counting.state = "returned" /\ counting.method = "count") =>
          counting.result = Some(ServerPage(server, 1, 1).total)

C21_Witness ==
    /\ counting.state = "returned"
    /\ counting.method = "count"
    /\ iterOptions.page = Some(2)
    /\ iterOptions.per_page = Some(SmallPage)
    /\ counting.result = Some(MaxServerItems)
    /\ Len(counting.requests) = 1

\* C22: with an item cap N >= 0, a traversal yields exactly min(N, number
\* of items available from the start page) items: it stops once N items
\* have been yielded, inside a page if need be, and never yields item N+1.
C22_CapRespected ==
    \A t \in Traversals :
        ( /\ IsSome(iterOptions.maxItems)
          /\ trav[t].op.name = "toArray"
          /\ ~trav[t].disturbed
          /\ ~server.sparse )
        => /\ Len(trav[t].out) <= iterOptions.maxItems[1]
           /\ trav[t].gen = "done" =>
                 trav[t].out = Prefix(FullSequence, iterOptions.maxItems[1])

\* the same for caps N >= 1
C22_PositiveCapRespected ==
    (IsSome(iterOptions.maxItems) /\ iterOptions.maxItems[1] = 0)
      \/ C22_CapRespected

\* the items of the pages a traversal has fetched, but for the last n of
\* them
ItemsFetched(tr, n) ==
    ItemsOfPages(FirstPage, FirstPage + Len(tr.fetched) - 1 - n)

\* C23: forEach invokes the callback once per yielded item, in traversal
\* order; while the promise of an invocation is pending the next item is
\* not requested and the next page is not fetched; once an invocation has
\* failed, forEach has rejected with that failure and makes no further
\* invocation or fetch.
C23_ForEachAwaitsCallback ==
    LET tr == trav[1]
    IN  tr.op.name = "forEach" =>
          /\ tr.out = Prefix(FullSequence, Len(tr.out))
          /\ tr.fetched = PageRange(FirstPage,
                                    FirstPage + Len(tr.fetched) - 1)
          /\ tr.gen = "callback" =>
                /\ tr.data[tr.idx] = Last(tr.out)
                /\ Len(ItemsFetched(tr, 1)) < Len(tr.out)
                /\ Len(tr.out) <= Len(ItemsFetched(tr, 0))
          /\ tr.cbFailed =>
                /\ tr.gen = "closed"
                /\ tr.error = Some("callback failed")
                /\ Len(ItemsFetched(tr, 1)) < Len(tr.out)
                /\ Len(tr.out) <= Len(ItemsFetched(tr, 0))

\* the callback fails on item 3, the first of page 2, of a 5-item list
\* served 2 to a page: page 3 is never fetched
C23_Witness ==
    /\ trav[1].op.name = "forEach"
    /\ trav[1].cbFailed
    /\ trav[1].out = <<1, 2, 3>>
    /\ trav[1].fetched = <<1, 2>>
    /\ server = [total |-> MaxServerItems, sparse |-> FALSE]
    /\ iterOptions.maxItems = None

\* C24: a forEach callback that returns early without failing does not
\* stop the traversal: whatever the callback returns, forEach goes on to
\* invoke it for every remaining item and to fetch every remaining page.
C24_ReturnValueIgnored ==
    LET tr == trav[1]
    IN  (tr.op.name = "forEach" /\ tr.stopAsked /\ ~tr.cbFailed) =>
          /\ tr.gen # "closed"
          /\ ( /\ tr.gen = "done"
                /\ iterOptions.maxItems = None
                /\ FirstPage <= LastPage )
             => /\ tr.out = FullSequence
                /\ tr.fetched = PageRange(FirstPage, LastPage)

\* the callback has returned a value on the way through a 5-item list
\* served 2 to a page, and has still been given all 5 items of the 3 pages
C24_Witness ==
    /\ trav[1].op.name = "forEach"
    /\ trav[1].stopAsked
    /\ trav[1].gen = "done"
    /\ trav[1].out = <<1, 2, 3, 4, 5>>
    /\ trav[1].fetched = <<1, 2, 3>>

\* C25: when a page fetch fails with a Typed Error the traversal ends at
\* once: that error reaches the consumer, no later page is fetched, and the
\* items delivered before it are exactly those of the pages fetched
\* successfully before, in order and without duplicates.
C25_PageFailureEndsTraversal ==
    \A t \in Traversals :
        (trav[t].gen = "failed" /\ ~trav[t].disturbed) =>
          /\ \E err \in PageErrors :
                trav[t].error = Some(err) /\ IsHisabError(err)
          /\ trav[t].fetched =
                PageRange(FirstPage, FirstPage + Len(trav[t].fetched) - 1)
          /\ trav[t].out = ItemsFetched(trav[t], 1)

\* page 3 of a 5-item list served 2 to a page fails after pages 1 and 2
\* were delivered
C25_Witness ==
    \E t \in Traversals :
        /\ trav[t].gen = "failed"
        /\ ~trav[t].disturbed
        /\ trav[t].error[1].class = "NetworkError"
        /\ trav[t].fetched = <<1, 2, 3>>
        /\ trav[t].out = <<1, 2, 3, 4>>

(***************************************************************************)
(* Properties of the webhook utilities                                     *)
(***************************************************************************)
\* the tolerance a verification ran with
ToleranceOf(v) == Coalesce(v.options.tolerance, DEFAULT_TOLERANCE)

\* the verification was given what the signer was given and what it
\* returned
VerifiesSigned(g, v) ==
    /\ v.options.payload = g.payload
    /\ v.options.secret = g.secret
    /\ v.options.signature = g.result.signature
    /\ v.options.timestamp = g.result.timestamp

\* C26: round trip.  For a non-empty payload P, a non-empty secret S and a
\* timestamp T with |now - T| <= tolerance, verifying the signature and
\* timestamp that generateTestSignature(P, S, T) returned against the same
\* P and S gives valid = true and no error reason.
C26_RoundTrip ==
    (signed # None /\ verification # None) =>
       LET g == signed[1]
           v == verification[1]
           T == Coalesce(g.timestamp, g.at)
       IN  ( /\ VerifiesSigned(g, v)
             /\ g.payload # <<>>
             /\ g.secret # <<>>
             /\ Abs(v.at - T) <= ToleranceOf(v) )
           => v.result = [valid |-> TRUE, error |-> None]

\* a signature made for a time ahead of the clock by more than the default
\* tolerance is verified one second later, at the edge of the tolerance
C26_Witness ==
    /\ signed # None
    /\ verification # None
    /\ VerifiesSigned(signed[1], verification[1])
    /\ signed[1].timestamp = Some(Epoch + DEFAULT_TOLERANCE + 1)
    /\ verification[1].at = Epoch + 1
    /\ verification[1].options.tolerance = None
    /\ verification[1].result.valid

\* the timestamp header parses as an integer within the tolerance of the
\* clock
Fresh(v) ==
    /\ ParseInt(v.options.timestamp) # NaN
    /\ Abs(v.at - ParseInt(v.options.timestamp)[1]) <= ToleranceOf(v)

\* C27: soundness.  verifyWebhookSignatureWithReason returns valid = true
\* only if the four inputs are non-empty, the timestamp parses as an
\* integer within tolerance of now, the signature has version v1 and its
\* digest is the hex HMAC-SHA256 of "<timestamp>.<payload>" keyed by the
\* secret; on every other input, a digest of another length included, it
\* returns valid = false, and it raises no exception.
C27_Soundness ==
    verification # None =>
       LET v == verification[1]
           o == v.options
       IN  /\ v.result.valid \in BOOLEAN
           /\ v.result.valid <=>
                 ( /\ o.payload # <<>>
                   /\ o.signature # <<>>
                   /\ o.timestamp # <<>>
                   /\ o.secret # <<>>
                   /\ Fresh(v)
                   /\ o.signature =
                         Chars(<<"v", "1", "=">>)
                           \o Hex(Hmac(o.secret,
                                       o.timestamp \o <<".">> \o o.payload)) )

\* a v1 signature with a digest of three characters, fresh and complete
\* otherwise, is turned down without an exception
C27_Witness ==
    /\ verification # None
    /\ verification[1].options.signature
          = Chars(<<"v", "1", "=", "a", "b", "c">>)
    /\ verification[1].options.payload # <<>>
    /\ verification[1].options.secret # <<>>
    /\ Fresh(verification[1])
    /\ ~verification[1].result.valid
    /\ verification[1].result.error
          = Some(VerificationFailed(
                   "Input buffers must have the same byte length"))

\* the positions of the '=' delimiters of a signature header, the text
\* before the first of them and the text after it
Delimiters(signature) ==
    {i \in 1..Len(signature) : signature[i] = [ch |-> "="]}
VersionText(signature) ==
    IF Delimiters(signature) = {} THEN signature
    ELSE SubSeq(signature, 1,
                (CHOOSE i \in Delimiters(signature) :
                    \A j \in Delimiters(signature) : i <= j) - 1)
DigestText(signature) ==
    SubSeq(signature, Len(VersionText(signature)) + 2, Len(signature))

\* verification v fails check k of the order 1 missing parameter,
\* 2 timestamp format, 3 freshness, 4 signature format, 5 signature
\* version, 6 cryptographic comparison, each taken on its own
FailsCheck(k, v) ==
    LET o == v.options
    IN  CASE k = 1 -> \/ o.payload = <<>> \/ o.signature = <<>>
                      \/ o.timestamp = <<>> \/ o.secret = <<>>
          [] k = 2 -> ParseInt(o.timestamp) = NaN
          [] k = 3 -> ParseInt(o.timestamp) # NaN /\ ~Fresh(v)
          [] k = 4 -> Cardinality(Delimiters(o.signature)) # 1
          [] k = 5 -> VersionText(o.signature) # Chars(<<"v", "1">>)
          [] k = 6 -> DigestText(o.signature)
                        # Hex(Hmac(o.secret,
                                   o.timestamp \o <<".">> \o o.payload))

\* the reasons a failure of check k is reported with
ReasonsOfCheck(k, v) ==
    CASE k = 1 -> {Some(MissingParameters)}
      [] k = 2 -> {Some(InvalidTimestampFormat)}
      [] k = 3 -> {Some(OutsideTolerance(ToleranceOf(v)))}
      [] k = 4 -> {Some(InvalidSignatureFormat)}
      [] k = 5 -> {Some(UnknownVersion(VersionText(v.options.signature)))}
      [] k = 6 -> {None,
                   Some(VerificationFailed(
                          "Input buffers must have the same byte length"))}

\* C28: for an input that fails several checks at once, the reason returned
\* is that of the earliest failing check in the order missing parameter,
\* timestamp format, freshness, signature format, signature version,
\* cryptographic comparison; no later check decides the result.
C28_EarliestCheckDecides ==
    verification # None =>
       LET v == verification[1]
           failing == {k \in 1..6 : FailsCheck(k, v)}
       IN  failing # {} =>
             LET first == CHOOSE k \in failing : \A j \in failing : k <= j
             IN  /\ ~v.result.valid
                 /\ v.result.error \in ReasonsOfCheck(first, v)

\* a stale timestamp under a v2 signature with a wrong digest is reported
\* as stale
C28_Witness ==
    /\ verification # None
    /\ FailsCheck(3, verification[1])
    /\ FailsCheck(5, verification[1])
    /\ FailsCheck(6, verification[1])
    /\ ~FailsCheck(1, verification[1])
    /\ verification[1].result.error
          = Some(OutsideTolerance(ToleranceOf(verification[1])))

\* the sender's signature of the timestamp and payload verified
SignedBySender(v) ==
    v.options.signature
      = SenderSignature(v.options.timestamp, v.options.payload,
                        v.options.secret)

\* C29: replay protection.  For a timestamp T and tolerance t (300 when
\* none is given), |now - T| > t makes verification fail with a reason
\* containing "outside tolerance", the signature being correct for T or
\* not; with |now - T| <= t, equality and timestamps ahead of the clock
\* included, the freshness check passes.
C29_ReplayProtection ==
    verification # None =>
       LET v == verification[1]
           T == ParseInt(v.options.timestamp)
           t == ToleranceOf(v)
       IN  (~FailsCheck(1, v) /\ T # NaN) =>
             IF Abs(v.at - T[1]) > t
             THEN /\ ~v.result.valid
                  /\ v.result.error = Some(OutsideTolerance(t))
                  /\ v.result.error[1].text
                        = "Webhook timestamp is outside tolerance (${tolerance}s)"
             ELSE /\ v.result.error # Some(OutsideTolerance(t))
                  /\ SignedBySender(v) => v.result.valid

\* a correctly signed timestamp 301 s ahead of the clock is turned down
\* under the default tolerance
C29_Witness ==
    /\ verification # None
    /\ signed # None
    /\ VerifiesSigned(signed[1], verification[1])
    /\ SignedBySender(verification[1])
    /\ verification[1].options.tolerance = None
    /\ ParseInt(verification[1].options.timestamp)
          = Num(verification[1].at + DEFAULT_TOLERANCE + 1)
    /\ verification[1].result
          = Invalid(OutsideTolerance(DEFAULT_TOLERANCE))

\* C30: if any one of payload, signature, timestamp or secret is empty,
\* verification returns valid = false with the reason "Missing required
\* parameters for signature verification", whatever the other three are.
C30_MissingParameter ==
    verification # None =>
       LET o == verification[1].options
       IN  ( \/ o.payload = <<>>
             \/ o.signature = <<>>
             \/ o.timestamp = <<>>
             \/ o.secret = <<>> )
           => /\ verification[1].result = Invalid(MissingParameters)
              /\ verification[1].result.error[1].text
                    = "Missing required parameters for signature verification"

\* the secret alone is empty, under a fresh timestamp and the signature an
\* empty key gives
C30_Witness ==
    /\ verification # None
    /\ verification[1].options.secret = <<>>
    /\ verification[1].options.payload # <<>>
    /\ Fresh(verification[1])
    /\ SignedBySender(verification[1])
    /\ verification[1].result = Invalid(MissingParameters)

\* C31: generateTestSignature is deterministic.  Two calls with the same
\* payload, secret and timestamp return the same signature and timestamp,
\* whatever the clock reads at each call; the signature is "v1=" followed
\* by a hex digest and the timestamp returned is the decimal string of the
\* timestamp given.
C31_SignerDeterministic ==
    /\ \A i \in 1..Len(signed) :
          LET g == signed[i]
          IN  /\ SubSeq(g.result.signature, 1, 3) = Chars(<<"v", "1", "=">>)
              /\ Len(g.result.signature) = 4
              /\ DOMAIN g.result.signature[4] = {"hex"}
              /\ g.timestamp # None =>
                    /\ g.result.timestamp = NumberToString(g.timestamp[1])
                    /\ ParseInt(g.result.timestamp) = Num(g.timestamp[1])
    /\ ( /\ Len(signed) = 2
         /\ signed[1].payload = signed[2].payload
         /\ signed[1].secret = signed[2].secret
         /\ signed[1].timestamp = signed[2].timestamp
         /\ signed[1].timestamp # None )
       => signed[1].result = signed[2].result

\* the same payload, secret and timestamp 0 signed at two readings of the
\* clock
C31_Witness ==
    /\ Len(signed) = 2
    /\ signed[1].payload = signed[2].payload
    /\ signed[1].secret = signed[2].secret
    /\ signed[1].timestamp = Some(0)
    /\ signed[2].timestamp = Some(0)
    /\ signed[1].at # signed[2].at
    /\ signed[1].result = signed[2].result
    /\ signed[1].result.timestamp = <<"0">>

\* C32: when verification fails in a check that precedes the cryptographic
\* one (missing parameter, timestamp format, freshness, signature format,
\* version other than v1), no HMAC is computed and the digest comparison is
\* not reached in that call.
C32_NoHmacBeforeChecksPass ==
    verification # None =>
       LET v == verification[1]
       IN  IF \E k \in 1..5 : FailsCheck(k, v)
           THEN v.hmacs = <<>> /\ ~v.compared
           ELSE /\ v.hmacs
                     = <<Hmac(v.options.secret,
                              v.options.timestamp \o <<".">>
                                \o v.options.payload)>>
                /\ v.compared

\* a fresh, complete input whose signature names v2 over the right digest
C32_Witness ==
    /\ verification # None
    /\ ~FailsCheck(1, verification[1])
    /\ Fresh(verification[1])
    /\ ~FailsCheck(6, verification[1])
    /\ verification[1].result
          = Invalid(UnknownVersion(Chars(<<"v", "2">>)))
    /\ verification[1].hmacs = <<>>
    /\ ~verification[1].compared

(***************************************************************************)
(* Further properties of PaginatedIterator                                 *)
(***************************************************************************)
\* C33: a traversal with an item cap N >= 1 fetches no page it does not
\* need: it issues at most ceil(N / per_page) page fetches, and when the
\* cap is reached on the last item of a page the page after it is not
\* fetched.
C33_NoNeedlessFetch ==
    \A t \in Traversals :
        ( /\ IsSome(iterOptions.maxItems)
          /\ iterOptions.maxItems[1] >= 1
          /\ ~trav[t].disturbed
          /\ ~server.sparse )
        => /\ Len(trav[t].fetched)
                <= CeilDiv(iterOptions.maxItems[1], perPage)
           /\ ( /\ Len(trav[t].out) = iterOptions.maxItems[1]
                /\ iterOptions.maxItems[1] % perPage = 0
                /\ Ended(trav[t]) )
              => Len(trav[t].fetched) = iterOptions.maxItems[1] \div perPage

\* a cap of one full page on a longer list: the traversal ends after the
\* last item of page 1 with one fetch
C33_Witness ==
    \E t \in Traversals :
        /\ iterOptions.maxItems = Some(perPage)
        /\ server = [total |-> MaxServerItems, sparse |-> FALSE]
        /\ trav[t].op.name = "toArray"
        /\ ~trav[t].disturbed
        /\ trav[t].gen = "done"
        /\ Len(trav[t].out) = perPage
        /\ trav[t].fetched = <<1>>

(***************************************************************************)
(* Further properties of HttpClient.request                                *)
(***************************************************************************)
\* min(1000 * 2^(k-1), 30000)
BackoffFloor(k) ==
    IF 1000 * Pow2(k - 1) < 30000 THEN 1000 * Pow2(k - 1) ELSE 30000

\* the step starts a sleep of a backoff delay for the attempt under way,
\* and no attempt
BackoffSleepStarts ==
    /\ pc' = "sleeping"
    /\ sleepCalls' = sleepCalls + 1
    /\ fetchCalls' = fetchCalls
    /\ attempt' = attempt
    /\ sleepMs' # None
    /\ sleepMs'[1] # NaN
    /\ BackoffFloor(attempt) <= sleepMs'[1][1]
    /\ sleepMs'[1][1] < BackoffFloor(attempt) + 1000

\* C34: between a failed attempt k (a 5xx response, a network failure or a
\* timeout) and attempt k+1, request sleeps exactly once, for d ms with
\* min(1000 * 2^(k-1), 30000) <= d < min(1000 * 2^(k-1), 30000) + 1000, and
\* attempt k+1 starts only when that sleep has ended.
C34_BackoffBetweenAttempts ==
    [][ /\ ( /\ pc = "responded"
             /\ response[1].status >= 500
             /\ response[1].status < 600
             /\ attempt < maxAttempts )
           => BackoffSleepStarts
        /\ ( /\ pc = "fetching"
             /\ attemptLog' = Append(attemptLog, 0)
             /\ attempt < maxAttempts )
           => BackoffSleepStarts
        /\ pc = "sleeping"
           => /\ pc' = "fetching"
              /\ attempt' = attempt + 1
              /\ fetchCalls' = fetchCalls + 1
              /\ sleepCalls' = sleepCalls
        /\ (attempt >= 1 /\ attempt' = attempt + 1)
           => pc = "sleeping" ]_vars

\* the sleep after failed attempt LongRetries, at the cap with the largest
\* jitter, 503 responses and transport failures among the attempts
C34_Witness ==
    /\ pc = "sleeping"
    /\ attempt = LongRetries
    /\ sleepCalls = LongRetries
    /\ fetchCalls = LongRetries
    /\ sleepMs = Some(Num(BackoffCapMs + JitterRangeMs - 1))
    /\ 503 \in {attemptLog[i] : i \in 1..Len(attemptLog)}
    /\ 0 \in {attemptLog[i] : i \in 1..Len(attemptLog)}

\* the header set of the latest processed response among those at the given
\* positions, if there is one
LatestOf(those) ==
    IF those = {} THEN None
    ELSE Some(processed[CHOOSE i \in those : \A j \in those : j <= i])

CarriesAllThree(headers) == RateLimitHeaderNames \subseteq DOMAIN headers

CarriesAllThreeValues(headers) ==
    /\ CarriesAllThree(headers)
    /\ \A h \in RateLimitHeaderNames : headers[h] # <<>>

\* lastRateLimit is null, or the whole triple of the given response
SnapshotIsOf(latest) ==
    lastRateLimit = IF latest = None THEN None
                    ELSE Some(SnapshotOf(latest[1]))

\* the attempt counter and the retry budget of every call are those its own
\* config and its own attempts give it
CallsIndependent ==
    \A c \in CallIds :
       LET call == inFlight[c]
       IN  call.pc # "idle" =>
             /\ call.maxAttempts
                  = MaxAttemptsOf(call.config[1].retries, maxRetries)
             /\ call.attempt >= 1
             /\ call.attempt <= call.maxAttempts
             /\ call.fetchCalls = call.attempt
             /\ Len(call.log)
                  = IF call.pc = "fetching" THEN call.attempt - 1
                    ELSE call.attempt
             /\ call.sleepCalls
                  = IF call.pc = "sleeping" THEN call.attempt
                    ELSE call.attempt - 1

\* C35 as stated: with several calls of request in flight on one client,
\* lastRateLimit is null or the whole triple of the most recently processed
\* response that carries all three rate-limit headers, and every call keeps
\* its own attempt counter and retry budget.
C35_LastWriteWins_AnyValue ==
    /\ SnapshotIsOf(LatestOf({i \in 1..Len(processed) :
                                CarriesAllThree(processed[i])}))
    /\ CallsIndependent

\* C35: with several calls of request in flight on one client, under every
\* interleaving, lastRateLimit is null or the whole triple of the most
\* recently processed response that carries all three rate-limit headers
\* with non-empty values, never a mixture of two responses, and every call
\* keeps its own attempt counter and retry budget.
C35_LastWriteWins ==
    /\ SnapshotIsOf(LatestOf({i \in 1..Len(processed) :
                                CarriesAllThreeValues(processed[i])}))
    /\ CallsIndependent

\* call 1 sleeps after a 503 that carried one header set while call 2, with
\* no retry, has returned on a response that carried the other, processed
\* later
C35_Witness ==
    /\ processed = <<RateLimitA, RateLimitB>>
    /\ inFlight[1].pc = "sleeping"
    /\ inFlight[1].log = <<503>>
    /\ inFlight[1].maxAttempts = 2
    /\ inFlight[2].pc = "returned"
    /\ inFlight[2].log = <<200>>
    /\ inFlight[2].maxAttempts = 1
    /\ lastRateLimit = Some(SnapshotOf(RateLimitB))

\* C36: verifyWebhookSignatureAsync and verifyWebhookSignatureWithReason,
\* called with the same options at the same clock reading, return the same
\* valid verdict.
C36_SameVerdict ==
    ( /\ verification # None
      /\ asyncVerification # None
      /\ asyncVerification[1].options = verification[1].options
      /\ asyncVerification[1].at = verification[1].at )
    => asyncVerification[1].result.valid = verification[1].result.valid

\* both verifiers accept, at one clock reading, the signature the signer
\* made
C36_Witness ==
    /\ verification # None
    /\ asyncVerification # None
    /\ signed # None
    /\ verification[1].options.signature = signed[1].result.signature
    /\ asyncVerification[1].at = verification[1].at
    /\ verification[1].result.valid
    /\ asyncVerification[1].result.valid

\* both verifiers reject, at one clock reading, a fresh header that names
\* another version and carries the right digest
C36_WitnessRejected ==
    /\ verification # None
    /\ asyncVerification # None
    /\ asyncVerification[1].at = verification[1].at
    /\ verification[1].result.error
         = Some(UnknownVersion(Chars(<<"v", "2">>)))
    /\ asyncVerification[1].result.error = Some(InvalidSignatureFormat)

\* C37: every call of request ends, returning a value or throwing an error,
\* whatever the outcomes of its attempts and its retry count, when every
\* fetch and every sleep completes; it issues no more fetches than the
\* attempts it is allowed.
C37_Terminates ==
    /\ [](pc # "idle" => fetchCalls <= maxAttempts /\ sleepCalls <= fetchCalls)
    /\ (pc \in {"fetching", "responded", "sleeping"})
          ~> (pc \in {"returned", "thrown"})

\* a call that used all its attempts, sleeping between them, and threw
C37_Witness ==
    /\ pc = "thrown"
    /\ maxAttempts = MaxRetries + 1
    /\ fetchCalls = maxAttempts
    /\ sleepCalls = MaxRetries
    /\ attemptLog = <<503, 0, 503>>

\* a status received (attemptLog holds 0 for an attempt without a response)
\* that is neither a success nor a 4xx or 5xx
Unclassified(status) ==
    /\ status # 0
    /\ ~(status >= 200 /\ status < 300)
    /\ ~(status >= 400 /\ status < 600)

\* the call whose first response had the given status has thrown the
\* HisabError of that status after one attempt and no sleep
FailedAtOnce(status) ==
    /\ pc = "thrown"
    /\ fetchCalls = 1
    /\ sleepCalls = 0
    /\ attemptLog = <<status>>
    /\ result[1].class = "HisabError"
    /\ result[1].status = status

\* C38: a response whose status is neither in [200,300) nor in [400,600)
\* makes request fail at once with a HisabError carrying that status: one
\* attempt, no sleep, whatever the retry count.
C38_UnclassifiedFailsAtOnce ==
    ( /\ attemptLog # <<>>
      /\ Unclassified(attemptLog[1])
      /\ pc # "responded" )
    => FailedAtOnce(attemptLog[1])

\* the part of C38 that the code keeps: a status below 400 that is no
\* success fails at once
C38_RedirectFailsAtOnce ==
    ( /\ attemptLog # <<>>
      /\ Unclassified(attemptLog[1])
      /\ attemptLog[1] < 400
      /\ pc # "responded" )
    => FailedAtOnce(attemptLog[1])

\* a 302 answered to a call with retries left: thrown after one attempt
C38_RedirectWitness ==
    /\ FailedAtOnce(302)
    /\ maxAttempts = MaxRetries + 1

\* C39: every step of count() and exists() leaves the cursor of the
\* iterator (current page, items yielded, total pages) and the traversal in
\* progress as they are, and a traversal during which they are called, run
\* to completion, fetches the pages and yields the items it yields on its
\* own.
C39_CountLeavesCursor ==
    /\ [][counting' # counting
            => UNCHANGED <<currentPage, itemsYielded, totalPages, trav>>]_vars
    /\ []( ( /\ trav[1].gen = "done"
             /\ counting.state # "idle"
             /\ iterOptions.maxItems = None
             /\ FirstPage <= LastPage )
           => /\ trav[1].fetched = PageRange(FirstPage, LastPage)
              /\ trav[1].out = FullSequence )

\* count() has returned and the traversal, four items yielded, awaits its
\* third page with its cursor intact
C39_Witness ==
    /\ counting.state = "returned"
    /\ counting.method = "count"
    /\ server = [total |-> MaxServerItems, sparse |-> FALSE]
    /\ iterOptions.maxItems = None
    /\ perPage = SmallPage
    /\ trav[1].gen = "awaiting"
    /\ currentPage = 3
    /\ itemsYielded = 4
    /\ totalPages = Some(3)
    /\ trav[1].out = <<1, 2, 3, 4>>

====
